---- MODULE Spec2Model ----
(***************************************************************************)
(* Model of the epoch-rejection editor of Eelbrain:                        *)
(*   eelbrain/_wxgui/history.py        Action, History, FileDocument,      *)
(*                                     FileModel, FileFrame                *)
(*   eelbrain/_wxgui/select_epochs.py  ChangeAction, Document, Model       *)
(*                                     and the Frame that shows it         *)
(*   eelbrain/_experiment/test_def.py  assemble_tests                      *)
(* The state is the History object (list of actions, position, saved       *)
(* watermark, subscriptions) and the Document it manages; the Frame that   *)
(* subscribed to the document is kept with it (doc.frame).  Python values  *)
(* that may be None are records with a "kind" field.                       *)
(***************************************************************************)
EXTENDS Integers, Sequences, FiniteSets, TLC

VARIABLES
    history,          \* History._history: sequence of ChangeAction records
    last_action_idx,  \* History._last_action_idx (always < 0)
    saved_idx,        \* History._saved_idx
    subs,             \* History._saved_change_subscriptions (callback ids)
    doc,              \* Document: accept, tag, interpolate, bad_channels, path, saved,
                      \* allow_interpolation, and the subscribed Frame (page, plots, title)
    window,           \* FileFrame: "open" or "closed"
    last,             \* observation of the last operation (name, outcome, calls made)
    applied,          \* ids of the actions whose effect is in the document, oldest first
    undone,           \* ids of the actions that were undone and can be redone, oldest first
    discarded,        \* ids of the undone actions that were dropped by a new action
    savedApplied,     \* value of applied at the most recent register_save
    undoSnap,         \* <<history, last_action_idx>> before each undo not yet redone
    snaps,            \* per action of the history: the document before and after it was first done
    nextId,           \* identity of the next action object
    tests,            \* assemble_tests: the test definitions and, once called, the outcome
    layout            \* Frame: the layout of the canvas, its page, the Set Plot Layout dialog

histVars == <<history, last_action_idx, saved_idx, subs>>
ghostVars == <<applied, undone, discarded, savedApplied, undoSnap, snaps, nextId>>
vars == <<history, last_action_idx, saved_idx, subs, doc, window, last,
          applied, undone, discarded, savedApplied, undoSnap, snaps, nextId, tests, layout>>

----------------------------------------------------------------------------
(* Bounds *)
NEpochs == 2
NSensors == 2
MaxActions == 3
MaxModelActions == 2
MaxSubs == 2
PageSize == 1
MaxTests == 2

Epochs == 0 .. (NEpochs - 1)
Sensors == 0 .. (NSensors - 1)

\* sensor.names[i]
SensorName(i) == <<"MEG", i>>
SensorNames == {SensorName(i) : i \in Sensors}

----------------------------------------------------------------------------
(* Python helpers *)

\* seq[i] with Python's 0-based and negative indexing
PyIndex(seq, i) == IF i < 0 THEN seq[Len(seq) + i + 1] ELSE seq[i + 1]

\* seq[:j] with Python's slicing rules
PySliceTo(seq, j) ==
    LET stop == IF j < 0
                THEN (IF Len(seq) + j < 0 THEN 0 ELSE Len(seq) + j)
                ELSE (IF j > Len(seq) THEN Len(seq) ELSE j)
    IN SubSeq(seq, 1, stop)

SeqRange(seq) == {seq[k] : k \in 1 .. Len(seq)}

\* seq without x (list.remove for a list without duplicates)
Remove(seq, x) == SelectSeq(seq, LAMBDA y : y # x)

\* a Python int and a Python str, as elements of one list: <<type, value>>;
\* the str of a sensor is its name "MEG i"
PyInt(i) == <<"int", i>>
IsInt(x) == x[1] = "int"

\* x <= y in Python 2: ints by value, names by their digits, int before str
PyLeq(x, y) == IF x[1] = y[1] THEN x[2] <= y[2] ELSE IsInt(x)

\* sorted(E) for a collection of distinct elements
RECURSIVE SortedSeq(_)
SortedSeq(E) ==
    IF E = {} THEN <<>>
    ELSE LET m == CHOOSE x \in E : \A y \in E : PyLeq(x, y)
         IN <<m>> \o SortedSeq(E \ {m})

sorted(seq) == SortedSeq(SeqRange(seq))

\* None, and values that are not None
None == [kind |-> "none", v |-> <<>>]
Val(x) == [kind |-> "value", v |-> x]
\* a reference to the document's own (mutable) array; v is not used
DocRef == [kind |-> "docref", v |-> <<>>]

\* paths: os.path.splitext(path) is <<root, ext>>
NoPath == [none |-> TRUE, root |-> "", ext |-> ""]
Path(r, e) == [none |-> FALSE, root |-> r, ext |-> e]

----------------------------------------------------------------------------
(* Test definitions (test_def.py).  A Python value is <<type, value>>: a    *)
(* str is the sequence of its tokens (names and the separators "%", "*",   *)
(* " "), a dict is a function of its keys, an instance is <<class, its     *)
(* attributes>>.  A call returns a value or raises.                        *)

PyNone == <<"NoneType", <<>>>>
PyStr(tokens) == <<"str", tokens>>
PyDict(d) == <<"dict", d>>
PyTuple(t) == <<"tuple", t>>
PyList(l) == <<"list", l>>
PyBool(b) == <<"bool", b>>

Return(v) == [raised |-> "None", value |-> v]
Raise(e) == [raised |-> e, value |-> PyNone]

\* the value of an expression over a local name: Only({e(x) : x \in {v}})
Only(values) == CHOOSE v \in values : TRUE

\* bool(v)
Truthy(v) == IF v = PyNone THEN FALSE ELSE IF IsInt(v) THEN v[2] # 0 ELSE v[2] # <<>>

\* d without the key k (dict.pop)
pop(d, k) == [j \in DOMAIN d \ {k} |-> d[j]]

\* l.list_index(x), counted from 1
list_index(l, x) == CHOOSE k \in 1 .. Len(l) : l[k] = x /\ \A j \in 1 .. (k - 1) : l[j] # x

\* del l[k], counted from 1
list_del(l, k) == [j \in 1 .. (Len(l) - 1) |-> IF j < k THEN l[j] ELSE l[j + 1]]

\* s.split(sep)
RECURSIVE split(_, _)
split(s, sep) ==
    IF sep \notin SeqRange(s)
    THEN <<s>>
    ELSE Only({<<SubSeq(s, 1, k - 1)>> \o split(SubSeq(s, k + 1, Len(s)), sep) :
                  k \in {list_index(s, sep)}})

\* s.strip()
RECURSIVE strip(_)
strip(s) ==
    IF s = <<>> THEN s
    ELSE IF Head(s) = " " \/ s[Len(s)] = " "
    THEN strip(SubSeq(s, (IF Head(s) = " " THEN 2 ELSE 1),
                         (IF s[Len(s)] = " " THEN Len(s) - 1 ELSE Len(s))))
    ELSE s

\* sep.join(parts)
RECURSIVE join(_, _)
join(sep, parts) ==
    IF parts = <<>> THEN <<>>
    ELSE IF Len(parts) = 1 THEN parts[1]
    ELSE parts[1] \o <<sep>> \o join(sep, Tail(parts))

\* ''.join(s.split())
no_whitespace(s) == SelectSeq(s, LAMBDA t : t # " ")

\* the order of str: the tokens in the order of their first characters
Tokens == <<" ", "%", "*", "+", "a", "b", "group", "modality_a", "side_left", "subject">>
TokenRank(t) == CHOOSE k \in 1 .. Len(Tokens) : Tokens[k] = t

RECURSIVE StrLeq(_, _)
StrLeq(s, t) ==
    IF s = <<>> THEN TRUE
    ELSE IF t = <<>> THEN FALSE
    ELSE IF Head(s) = Head(t) THEN StrLeq(Tail(s), Tail(t))
    ELSE TokenRank(Head(s)) < TokenRank(Head(t))

\* sorted(items) for a list of str
RECURSIVE sorted_str(_)
sorted_str(items) ==
    IF items = <<>> THEN <<>>
    ELSE Only({<<items[k]>> \o sorted_str(list_del(items, k)) :
                  k \in {CHOOSE k \in 1 .. Len(items) :
                            \A j \in 1 .. Len(items) : StrLeq(items[k], items[j])}})

\* f(**params): every keyword is a parameter of f, and every parameter
\* without a default is given
Bind(names, defaults, params) ==
    IF /\ DOMAIN params \subseteq SeqRange(names)
       /\ SeqRange(names) \ DOMAIN defaults \subseteq DOMAIN params
    THEN Return([n \in SeqRange(names) |->
                    IF n \in DOMAIN params THEN params[n] ELSE defaults[n]])
    ELSE Raise("TypeError")

TAIL_REPR(tail) == IF tail = 0 THEN "=" ELSE IF tail = 1 THEN ">" ELSE "<"

\* tail_arg; the comparisons of Python 2 do not raise: None is below and
\* every other type is above the numbers
tail_arg(tail) ==
    IF tail = PyInt(0) THEN 0
    ELSE IF IsInt(tail) THEN (IF tail[2] > 0 THEN 1 ELSE -1)
    ELSE IF tail = PyNone THEN -1
    ELSE 1

\* map(str.strip, model.split('%'))
model_elements(model) ==
    Only({[k \in 1 .. Len(parts) |-> strip(parts[k])] : parts \in {split(model[2], "%")}})

\* the attributes that Test.__init__ sets; vars is the class attribute
Test_attrs(desc, model, groups, between, within) ==
    [desc |-> desc, model |-> model, groups |-> groups, vars |-> PyNone,
     _between |-> between,
     _within_model |-> IF model = PyNone THEN PyNone ELSE PyStr(join("%", within)),
     _within_model_items |->
         IF model = PyNone THEN PyNone
         ELSE PyList([j \in 1 .. Len(within) |-> PyStr(within[j])])]

\* Test.__init__
Test_init(desc, model, groups) ==
    IF model = PyNone
    THEN Return(Test_attrs(desc, model, groups, PyNone, <<>>))
    ELSE Only({IF <<"group">> \in SeqRange(elements)
               THEN IF ~Truthy(groups) THEN Raise("AssertionError")
                    ELSE Only({Return(Test_attrs(desc, model, groups, PyInt(k - 1),
                                                 list_del(elements, k))) :
                                  k \in {list_index(elements, <<"group">>)}})
               ELSE IF groups # PyNone THEN Raise("AssertionError")
                    ELSE Return(Test_attrs(desc, model, groups, PyNone, elements)) :
                  elements \in {model_elements(model)}})

\* [c for i, c in enumerate(cell) if i != between]
WithinCell(cell, between) ==
    PyList(IF between[2] < Len(cell[2]) THEN list_del(cell[2], between[2] + 1) ELSE cell[2])

\* EvokedTest.__init__
EvokedTest_init(desc, model, cat, groups) ==
    Only({IF r.raised # "None" THEN r
          ELSE Return(r.value @@
                  [cat |-> cat,
                   _within_cat |->
                       IF cat = PyNone THEN cat
                       ELSE IF r.value._within_model = PyNone
                               \/ r.value._within_model_items[2] = <<>>
                       THEN PyNone
                       ELSE IF r.value._between # PyNone
                       THEN PyList([k \in 1 .. Len(cat[2]) |->
                                       WithinCell(cat[2][k], r.value._between)])
                       ELSE cat]) :
             r \in {Test_init(desc, model, groups)}})

\* TTest.__init__; the cells c1 and c0 are str
TTest_init(model, c1, c0, tail, groups) ==
    Only({IF r.raised # "None" THEN r
          ELSE Return(r.value @@ [c1 |-> c1, c0 |-> c0, tail |-> PyInt(tail_arg(tail))]) :
             r \in {EvokedTest_init(PyStr(c1[2] \o <<" ", TAIL_REPR(tail_arg(tail)), " ">> \o c0[2]),
                                    model, PyTuple(<<c1, c0>>), groups)}})

\* TTestInd.__init__(self, model, c1, c0, tail=0)
TTestInd_init(a) ==
    IF a.model # PyStr(<<"group">>) THEN Raise("AssertionError")
    ELSE TTest_init(a.model, a.c1, a.c0, a.tail, PyTuple(<<a.c1, a.c0>>))

\* TTestRel.__init__(self, model, c1, c0, tail=0)
TTestRel_init(a) ==
    Only({IF r.raised = "None" /\ r.value._between # PyNone THEN Raise("AssertionError")
          ELSE r :
             r \in {TTest_init(a.model, a.c1, a.c0, a.tail, PyNone)}})

\* TContrastRel.__init__(self, model, contrast, tail=0): after tail_arg,
\* EvokedTest.__init__(contrast, model) is called without self; the unbound
\* method rejects a first argument that is no EvokedTest, and one that is
\* leaves it without its model argument
TContrastRel_init(a) ==
    IF tail_arg(a.tail) \in {-1, 0, 1} THEN Raise("TypeError") ELSE Raise("TypeError")

\* the model of ANOVA.__init__ for x without whitespace
ANOVA_model(x, model) ==
    IF model # PyNone THEN model
    ELSE Only({PyStr(join("%", SelectSeq(sorted_str([k \in 1 .. Len(parts) |-> strip(parts[k])]),
                                         LAMBDA i : i # <<"subject">>))) :
                  parts \in {split(x, "*")}})

\* ANOVA.__init__(self, x, model=None)
ANOVA_init(a) ==
    Only({IF r.raised # "None" THEN r
          ELSE IF r.value._between # PyNone THEN Raise("NotImplementedError")
          ELSE Return(r.value @@ [x |-> r.value.desc]) :
             r \in {EvokedTest_init(PyStr(no_whitespace(a.x[2])),
                                    ANOVA_model(no_whitespace(a.x[2]), a.model),
                                    PyNone, PyNone)}})

\* TwoStageTest.__init__(self, stage_1, vars=None, model=None)
TwoStageTest_init(a) ==
    Only({IF r.raised # "None" THEN r
          ELSE Return([r.value EXCEPT !.vars = a.vars] @@ [stage_1 |-> a.stage_1]) :
             r \in {Test_init(a.stage_1, a.model, PyNone)}})

TEST_CLASSES ==
    [anova |-> "ANOVA", ttest_rel |-> "TTestRel", ttest_ind |-> "TTestInd",
     t_contrast_rel |-> "TContrastRel"] @@ ("two-stage" :> "TwoStageTest")

\* the classes of test_def.py that are a Test
TestClasses == {"Test", "EvokedTest", "TTest", "TTestInd", "TTestRel",
                "TContrastRel", "ANOVA", "TwoStageTest"}

\* the parameters of cls.__init__ after self, and those with a default
Parameters(cls) ==
    CASE cls = "ANOVA" -> <<"x", "model">>
      [] cls \in {"TTestInd", "TTestRel"} -> <<"model", "c1", "c0", "tail">>
      [] cls = "TContrastRel" -> <<"model", "contrast", "tail">>
      [] cls = "TwoStageTest" -> <<"stage_1", "vars", "model">>

Defaults(cls) ==
    CASE cls = "ANOVA" -> [model |-> PyNone]
      [] cls \in {"TTestInd", "TTestRel", "TContrastRel"} -> [tail |-> PyInt(0)]
      [] cls = "TwoStageTest" -> [vars |-> PyNone, model |-> PyNone]

\* cls.__init__ with its arguments a
Initialize(cls, a) ==
    CASE cls = "ANOVA" -> ANOVA_init(a)
      [] cls = "TTestInd" -> TTestInd_init(a)
      [] cls = "TTestRel" -> TTestRel_init(a)
      [] cls = "TContrastRel" -> TContrastRel_init(a)
      [] cls = "TwoStageTest" -> TwoStageTest_init(a)

\* cls(**params): an instance of cls, or what the call raises
Construct(cls, params) ==
    Only({IF b.raised # "None" THEN b
          ELSE Only({IF r.raised # "None" THEN r ELSE Return(<<cls, r.value>>) :
                        r \in {Initialize(cls, b.value)}}) :
             b \in {Bind(Parameters(cls), Defaults(cls), params)}})

\* cls.test_kind
test_kind(cls) == CHOOSE kind \in DOMAIN TEST_CLASSES : TEST_CLASSES[kind] = cls

\* t.as_dict() for an instance t = <<class, attributes>>; a class without
\* its own as_dict has that of Test
as_dict_no_model(t) == Return(PyDict([j \in DOMAIN t[2] \cap {"c1", "c0", "tail", "contrast", "x", "stage_1", "vars"} |-> t[2][j]] @@ [kind |-> PyStr(<<test_kind(t[1])>>)]))
as_dict(t) ==
    IF t[1] \in {"TTestInd", "TTestRel"}
    THEN Return(PyDict([kind |-> PyStr(<<test_kind(t[1])>>), model |-> t[2].model,
                        c1 |-> t[2].c1, c0 |-> t[2].c0, tail |-> t[2].tail]))
    ELSE IF t[1] = "TContrastRel"
    THEN Return(PyDict([kind |-> PyStr(<<test_kind(t[1])>>), model |-> t[2].model,
                        contrast |-> t[2].contrast, tail |-> t[2].tail]))
    ELSE IF t[1] = "ANOVA"
    THEN Return(PyDict([kind |-> PyStr(<<test_kind(t[1])>>), model |-> t[2].model,
                        x |-> t[2].x]))
    ELSE IF t[1] = "TwoStageTest"
    THEN Return(PyDict([kind |-> PyStr(<<test_kind(t[1])>>), stage_1 |-> t[2].stage_1,
                        vars |-> t[2].vars, model |-> t[2].model]))
    ELSE Raise("NotImplementedError")

\* isinstance(v, Test)
IsTest(v) == v[1] \in TestClasses

\* if 'stage 1' in params: params['stage_1'] = params.pop('stage 1')
rename_stage_1_none(params) == params
rename_stage_1(params) ==
    IF "stage 1" \in DOMAIN params
    THEN ("stage_1" :> params["stage 1"]) @@ pop(params, "stage 1")
    ELSE params

\* kind in TEST_CLASSES, for a kind that is a str
IsKind(kind) == kind[1] = "str" /\ Len(kind[2]) = 1 /\ kind[2][1] \in DOMAIN TEST_CLASSES

\* out after out[key] = value, or the exception of the call that made value
Store(out, key, r) ==
    IF r.raised # "None" THEN [raised |-> r.raised, out |-> out]
    ELSE [raised |-> "None", out |-> (key :> r.value) @@ out]

\* one pass of the loop of assemble_tests: out with the entry, or the exception
assemble_entry_skips(out, key, params) == [raised |-> "None", out |-> out]
assemble_entry(out, key, params) ==
    IF IsTest(params) THEN Store(out, key, Return(params))
    ELSE IF params[1] # "dict" THEN [raised |-> "TypeError", out |-> out]
    ELSE Only({IF "kind" \notin DOMAIN p THEN [raised |-> "KeyError", out |-> out]
               ELSE IF ~IsKind(p.kind) THEN [raised |-> "DefinitionError", out |-> out]
               ELSE Only({Store(out, key, r) :
                             r \in {Construct(TEST_CLASSES[p.kind[2][1]], pop(p, "kind"))}}) :
                  p \in {rename_stage_1(params[2])}})

RECURSIVE assemble_loop(_, _)
assemble_loop(out, items) ==
    IF items = <<>> THEN Return(PyDict(out))
    ELSE Only({IF r.raised # "None" THEN Raise(r.raised)
               ELSE assemble_loop(r.out, Tail(items)) :
                  r \in {assemble_entry(out, Head(items)[1], Head(items)[2])}})

\* assemble_tests; test_dict is the sequence of its items in the order of
\* test_dict.iteritems()
assemble_tests(test_dict) == assemble_loop(<<>>, test_dict)

----------------------------------------------------------------------------
(* History: queries *)

can_redo(idx) == idx < -1

\* the off-by-one slip: > instead of >=
can_undo_strict(h, idx) == Len(h) + idx > 0

can_undo(h, idx) == Len(h) + idx >= 0

is_saved(h, idx, sidx) ==
    LET current_index == Len(h) + idx
    IN IF current_index = -1 /\ sidx < 0
       THEN TRUE
       ELSE sidx = current_index

\* slip: doc.saved is not written
ProcessSavedChange_stale(was_saved, h, idx, sidx, d, callbacks) ==
    LET now == is_saved(h, idx, sidx)
    IN IF now # was_saved
       THEN [saved |-> d.saved,
             notified |-> [k \in 1 .. Len(callbacks) |->
                              [cb |-> callbacks[k], saved |-> d.saved]]]
       ELSE [saved |-> d.saved, notified |-> <<>>]

\* slip: the callbacks are called whether or not the saved state changed
ProcessSavedChange_always(was_saved, h, idx, sidx, d, callbacks) ==
    LET now == is_saved(h, idx, sidx)
    IN [saved |-> now,
        notified |-> [k \in 1 .. Len(callbacks) |->
                         [cb |-> callbacks[k], saved |-> now]]]

\* History._process_saved_change: the new doc.saved and the callbacks called,
\* each with the value of doc.saved it can observe
ProcessSavedChange(was_saved, h, idx, sidx, d, callbacks) ==
    LET now == is_saved(h, idx, sidx)
    IN IF now # was_saved
       THEN [saved |-> now,
             notified |-> [k \in 1 .. Len(callbacks) |->
                              [cb |-> callbacks[k], saved |-> now]]]
       ELSE [saved |-> d.saved, notified |-> <<>>]

----------------------------------------------------------------------------
(* Frame: what the window shows.  d.frame is the Frame whose methods are    *)
(* subscribed to the document d; without a Frame the callbacks do nothing.  *)

\* a document nobody subscribed to
NoFrame == [attached |-> FALSE, page |-> 0, plots |-> <<>>, title |-> <<>>]

\* Frame._SetLayout with n_per_page = PageSize: _n_pages and _segs_by_page
NPages == (NEpochs + PageSize - 1) \div PageSize
SegsByPage(page) == {e \in Epochs : e \div PageSize = page}

\* Document.get_epoch(...).sensor.channel_idx: the sensors of a plot are the
\* good channels, the sensors whose index is not in doc.bad_channels
ChannelIdx(d) ==
    {SensorName(i) : i \in {j \in Sensors : PyInt(j) \notin SeqRange(d.bad_channels)}}

\* what set_state and set_marked leave in the plot of epoch e; a marked
\* channel is named by its sensor (the plot holds its index in channel_idx)
PlotOf(d, e) ==
    [state |-> d.accept[e],
     marked |-> SelectSeq(d.interpolate[e], LAMBDA ch : ch \in ChannelIdx(d))]

\* slip: the plots are not updated
Frame_CaseChanged_none(d, index) == d

\* Frame.CaseChanged(index): index is the set of epochs the int, slice,
\* boolean array or array of int stands for
Frame_CaseChanged(d, index) ==
    IF ~d.frame.attached
    THEN d
    ELSE [d EXCEPT !.frame.plots =
             [e \in DOMAIN @ |-> IF e \in index THEN PlotOf(d, e) ELSE @[e]]]

\* Frame.SetPage
Frame_SetPage(d, page) ==
    [d EXCEPT !.frame.page = page,
              !.frame.plots = [e \in SegsByPage(page) |-> PlotOf(d, e)]]

\* Frame.ShowPage(page): every plot of the page is made again
Frame_ShowPage(d, page) ==
    IF ~d.frame.attached
    THEN d
    ELSE [d EXCEPT !.frame.page = page,
                   !.frame.plots = [e \in SegsByPage(page) |-> PlotOf(d, e)]]

\* bool(doc.path)
HasPath(d) == ~d.path.none /\ <<d.path.root, d.path.ext>> # <<"", "">>

\* os.path.basename(path), as the pieces of the name
basename(path) == <<path.root, path.ext>>

\* FileFrame.UpdateTitle
FileFrame_UpdateTitle(d) ==
    IF ~d.frame.attached
    THEN d
    ELSE LET is_modified == ~d.saved
         IN [d EXCEPT !.frame.title =
                IF HasPath(d)
                THEN (IF is_modified THEN <<"* ">> \o basename(d.path)
                                     ELSE basename(d.path))
                ELSE <<"Unsaved">>]

\* slip: UpdateTitle is not subscribed to the saved change
SavedChanged_unsubscribed(d, notified) == d

\* the callbacks of a saved change that were called reach the Frame, which
\* subscribed UpdateTitle in FileFrame.__init__
SavedChanged(d, notified) ==
    IF notified # <<>> THEN FileFrame_UpdateTitle(d) ELSE d

----------------------------------------------------------------------------
(* Document *)

\* array[index] = value, where value is None (no assignment), a value per
\* assigned case, or the document's own array (assigning an array to itself)
Assign(cur, cases, val) ==
    IF val.kind = "value"
    THEN [c \in Epochs |-> IF c \in cases THEN val.v[c] ELSE cur[c]]
    ELSE cur

\* Document.set_case
Document_set_case(d, index, state, tag, interpolate) ==
    Frame_CaseChanged([d EXCEPT !.accept = Assign(d.accept, index, state),
                                !.tag = Assign(d.tag, index, tag),
                                !.interpolate = Assign(d.interpolate, index, interpolate)],
                      index)

\* Document.set_bad_channels
Document_set_bad_channels(d, indexes) ==
    IF sorted(indexes) = d.bad_channels
    THEN d
    ELSE Frame_ShowPage([d EXCEPT !.bad_channels = sorted(indexes)], d.frame.page)

\* Document.set_path: a path without extension gets '.txt'
Document_set_path(d, path) ==
    IF path.ext = ""
    THEN FileFrame_UpdateTitle([d EXCEPT !.path = Path(path.root, ".txt")])
    ELSE FileFrame_UpdateTitle([d EXCEPT !.path = path])

\* Document.bad_channel_names raises TypeError for a bad channel that is not
\* an int: sensor.names[i]
bad_channel_names_raises(d) == \E k \in 1 .. Len(d.bad_channels) : ~IsInt(d.bad_channels[k])

\* Document.bad_channel_names
bad_channel_names(d) ==
    [k \in 1 .. Len(d.bad_channels) |-> SensorName(d.bad_channels[k][2])]

\* Document.save raises TypeError when the bad channel names are undefined
\* and ValueError unless the extension is .pickled or .txt
Document_save_raises(d) ==
    bad_channel_names_raises(d) \/ d.path.ext \notin {".pickled", ".txt"}

\* the data of the document and its path: everything but the saved flag
DocData(d) == [accept |-> d.accept, tag |-> d.tag,
               interpolate |-> d.interpolate, bad_channels |-> d.bad_channels,
               path |-> d.path]

----------------------------------------------------------------------------
(* ChangeAction *)

\* ChangeAction.__init__; id is the identity of the object
ChangeAction(id, desc, index, old_accept, new_accept, old_tag, new_tag, old_path, new_path, old_bad_chs, new_bad_chs, old_interpolate, new_interpolate) ==
    [id |-> id, desc |-> desc, index |-> index,
     old_accept |-> old_accept, new_accept |-> new_accept,
     old_tag |-> old_tag, new_tag |-> new_tag,
     old_path |-> old_path, new_path |-> new_path,
     old_bad_chs |-> old_bad_chs, new_bad_chs |-> new_bad_chs,
     old_interpolate |-> old_interpolate, new_interpolate |-> new_interpolate]

\* ChangeAction.do
ChangeAction_do(a, d) ==
    LET d1 == IF a.index.kind # "none"
              THEN Document_set_case(d, a.index.v, a.new_accept, a.new_tag,
                                     a.new_interpolate)
              ELSE d
        d2 == IF ~a.new_path.none
              THEN Document_set_path(d1, a.new_path)
              ELSE d1
    IN IF a.new_bad_chs.kind # "none"
       THEN Document_set_bad_channels(d2, a.new_bad_chs.v)
       ELSE d2

\* slip: undo sets the new bad channels again
ChangeAction_undo_new_chs(a, d) ==
    LET d1 == IF a.index.kind # "none"
              THEN Document_set_case(d, a.index.v, a.old_accept, a.old_tag,
                                     a.old_interpolate)
              ELSE d
        d2 == IF ~a.new_path.none /\ ~a.old_path.none
              THEN Document_set_path(d1, a.old_path)
              ELSE d1
    IN IF a.new_bad_chs.kind # "none"
       THEN Document_set_bad_channels(d2, a.new_bad_chs.v)
       ELSE d2

\* ChangeAction.undo
ChangeAction_undo(a, d) ==
    LET d1 == IF a.index.kind # "none"
              THEN Document_set_case(d, a.index.v, a.old_accept, a.old_tag,
                                     a.old_interpolate)
              ELSE d
        d2 == IF ~a.new_path.none /\ ~a.old_path.none
              THEN Document_set_path(d1, a.old_path)
              ELSE d1
    IN IF a.new_bad_chs.kind # "none"
       THEN Document_set_bad_channels(d2, a.old_bad_chs.v)
       ELSE d2

----------------------------------------------------------------------------
(* History: operations, as functions of the program state                  *)
(*   s.history, s.last_action_idx, s.saved_idx, s.doc : the objects        *)
(*   s.calls    : the calls made to action objects (and register_save),   *)
(*                in order                                                 *)
(*   s.notified : the saved-change callbacks called, in order              *)

Call(m, a) == [m |-> m, id |-> a.id]

\* the off-by-one slip: history[:last_action_idx]
DiscardFuture_short(h, idx) == PySliceTo(h, idx)

\* History.do, "discard alternate future": history[:last_action_idx + 1]
DiscardFuture(h, idx) == PySliceTo(h, idx + 1)

\* History.do
History_do(s, action) ==
    LET was_saved == is_saved(s.history, s.last_action_idx, s.saved_idx)
        d1 == ChangeAction_do(action, s.doc)
        discard == s.last_action_idx < -1
        h1 == IF discard
              THEN DiscardFuture(s.history, s.last_action_idx)
              ELSE s.history
        idx1 == IF discard THEN -1 ELSE s.last_action_idx
        sidx1 == IF discard /\ s.saved_idx >= Len(h1) THEN -1 ELSE s.saved_idx
        h2 == Append(h1, action)
        p == ProcessSavedChange(was_saved, h2, idx1, sidx1, d1, subs)
    IN [s EXCEPT !.history = h2,
                 !.last_action_idx = idx1,
                 !.saved_idx = sidx1,
                 !.doc = SavedChanged([d1 EXCEPT !.saved = p.saved], p.notified),
                 !.calls = Append(s.calls, Call("do", action)),
                 !.notified = s.notified \o p.notified]

\* History.redo raises RuntimeError at the tip of the history
History_redo_raises(s) == s.last_action_idx = -1

\* History.redo
History_redo(s) ==
    LET was_saved == is_saved(s.history, s.last_action_idx, s.saved_idx)
        action == PyIndex(s.history, s.last_action_idx + 1)
        d1 == ChangeAction_do(action, s.doc)
        idx1 == s.last_action_idx + 1
        p == ProcessSavedChange(was_saved, s.history, idx1, s.saved_idx, d1, subs)
    IN [s EXCEPT !.last_action_idx = idx1,
                 !.doc = SavedChanged([d1 EXCEPT !.saved = p.saved], p.notified),
                 !.calls = Append(s.calls, Call("do", action)),
                 !.notified = s.notified \o p.notified]

\* History.undo raises RuntimeError at the beginning of the history
History_undo_raises(s) == -s.last_action_idx > Len(s.history)

\* slip: undo always takes the last action of the list
History_undo_last(s) ==
    LET was_saved == is_saved(s.history, s.last_action_idx, s.saved_idx)
        action == PyIndex(s.history, -1)
        d1 == ChangeAction_undo(action, s.doc)
        idx1 == s.last_action_idx - 1
        p == ProcessSavedChange(was_saved, s.history, idx1, s.saved_idx, d1, subs)
    IN [s EXCEPT !.last_action_idx = idx1,
                 !.doc = SavedChanged([d1 EXCEPT !.saved = p.saved], p.notified),
                 !.calls = Append(s.calls, Call("undo", action)),
                 !.notified = s.notified \o p.notified]

\* History.undo
History_undo(s) ==
    LET was_saved == is_saved(s.history, s.last_action_idx, s.saved_idx)
        action == PyIndex(s.history, s.last_action_idx)
        d1 == ChangeAction_undo(action, s.doc)
        idx1 == s.last_action_idx - 1
        p == ProcessSavedChange(was_saved, s.history, idx1, s.saved_idx, d1, subs)
    IN [s EXCEPT !.last_action_idx = idx1,
                 !.doc = SavedChanged([d1 EXCEPT !.saved = p.saved], p.notified),
                 !.calls = Append(s.calls, Call("undo", action)),
                 !.notified = s.notified \o p.notified]

\* slip: the watermark is put at the tip of the history
History_register_save_tip(s) ==
    LET was_saved == is_saved(s.history, s.last_action_idx, s.saved_idx)
        sidx1 == Len(s.history) - 1
        p == ProcessSavedChange(was_saved, s.history, s.last_action_idx, sidx1,
                                s.doc, subs)
    IN [s EXCEPT !.saved_idx = sidx1,
                 !.doc = SavedChanged([s.doc EXCEPT !.saved = p.saved], p.notified),
                 !.calls = Append(s.calls, [m |-> "register_save", id |-> 0]),
                 !.notified = s.notified \o p.notified]

\* History.register_save
History_register_save(s) ==
    LET was_saved == is_saved(s.history, s.last_action_idx, s.saved_idx)
        sidx1 == Len(s.history) + s.last_action_idx
        p == ProcessSavedChange(was_saved, s.history, s.last_action_idx, sidx1,
                                s.doc, subs)
    IN [s EXCEPT !.saved_idx = sidx1,
                 !.doc = SavedChanged([s.doc EXCEPT !.saved = p.saved], p.notified),
                 !.calls = Append(s.calls, [m |-> "register_save", id |-> 0]),
                 !.notified = s.notified \o p.notified]

----------------------------------------------------------------------------
(* FileModel and FileFrame *)

\* FileModel.save: doc.save() and then history.register_save()
FileModel_save(s) ==
    IF Document_save_raises(s.doc)
    THEN [s EXCEPT !.raised = TRUE]
    ELSE History_register_save(s)

\* FileModel.save_as
FileModel_save_as(s, path) ==
    FileModel_save([s EXCEPT !.doc = Document_set_path(s.doc, path)])

\* FileFrame.OnSaveAs: rcode is the answer of the file dialog, path its path
FileFrame_OnSaveAs(s, rcode, path) ==
    IF rcode = "ID_OK"
    THEN [FileModel_save_as(s, path) EXCEPT !.ret = rcode]
    ELSE [s EXCEPT !.ret = rcode]

\* FileFrame.OnSave
FileFrame_OnSave(s, rcode, path) ==
    IF HasPath(s.doc)
    THEN [FileModel_save(s) EXCEPT !.ret = "ID_OK"]
    ELSE FileFrame_OnSaveAs(s, rcode, path)

\* slip: the result of OnSave is not looked at
FileFrame_OnClose_unchecked(s, canVeto, cmd, rcode, path) ==
    IF canVeto /\ ~is_saved(s.history, s.last_action_idx, s.saved_idx)
    THEN CASE cmd = "YES" ->
                 LET r == FileFrame_OnSave(s, rcode, path)
                 IN IF r.raised THEN r ELSE [r EXCEPT !.skipped = TRUE]
           [] cmd = "CANCEL" -> [s EXCEPT !.vetoed = TRUE]
           [] cmd = "NO" -> [s EXCEPT !.skipped = TRUE]
           [] OTHER -> [s EXCEPT !.raised = TRUE]
    ELSE [s EXCEPT !.skipped = TRUE]

\* FileFrame.OnClose: cmd is the answer to "Save unsaved changes?"; the
\* result has vetoed (event.Veto() called) and skipped (event.Skip() called)
FileFrame_OnClose(s, canVeto, cmd, rcode, path) ==
    IF canVeto /\ ~is_saved(s.history, s.last_action_idx, s.saved_idx)
    THEN CASE cmd = "YES" ->
                 LET r == FileFrame_OnSave(s, rcode, path)
                 IN IF r.raised THEN r
                    ELSE IF r.ret # "ID_OK" THEN [r EXCEPT !.vetoed = TRUE]
                    ELSE [r EXCEPT !.skipped = TRUE]
           [] cmd = "CANCEL" -> [s EXCEPT !.vetoed = TRUE]
           [] cmd = "NO" -> [s EXCEPT !.skipped = TRUE]
           [] OTHER -> [s EXCEPT !.raised = TRUE]
    ELSE [s EXCEPT !.skipped = TRUE]

----------------------------------------------------------------------------
(* Model *)

\* Model.set_case; tag is None or Val(a tag)
Model_set_case(s, id, i, state, tag, desc) ==
    LET old_accept == Val(i :> s.doc.accept[i])
        old_tag == IF tag.kind = "none" THEN None ELSE Val(i :> s.doc.tag[i])
        new_tag == IF tag.kind = "none" THEN None ELSE Val(i :> tag.v)
        action == ChangeAction(id, desc, Val({i}), old_accept, Val(i :> state),
                               old_tag, new_tag, NoPath, NoPath, None, None,
                               None, None)
    IN History_do(s, action)

\* Model.clear
Model_clear(s, id) ==
    LET index == {c \in Epochs : ~s.doc.accept[c]}
        old_tag == Val([c \in index |-> s.doc.tag[c]])
        action == ChangeAction(id, "Clear", Val(index),
                               Val([c \in index |-> FALSE]),
                               Val([c \in index |-> TRUE]),
                               old_tag, Val([c \in index |-> "clear"]),
                               NoPath, NoPath, None, None, None, None)
    IN History_do(s, action)

\* Document.read_rej_file raises ValueError for an unknown extension
read_rej_file_raises(path) == path.ext \notin {".pickled", ".txt"}

\* sensor.dimindex(names): the index of each name
dimindex(names) == [k \in 1 .. Len(names) |-> PyInt(names[k][2])]

\* Document.read_rej_file asks whether to drop the interpolation instructions
\* of the file when interpolation is disabled
read_rej_file_asks(d, file) ==
    ~d.allow_interpolation /\ \E c \in Epochs : file.interpolate[c] # <<>>

\* Document.read_rej_file for a file that fits the data: accept, tag,
\* interpolate and bad channels (as indexes) of the file; cmd is the answer
\* to the question about interpolation instructions
read_rej_file(d, path, file, cmd) ==
    [raised |-> read_rej_file_raises(path)
                   \/ (read_rej_file_asks(d, file) /\ cmd # "OK"),
     accept |-> file.accept, tag |-> file.tag,
     interpolate |-> IF read_rej_file_asks(d, file)
                     THEN [c \in Epochs |-> <<>>]
                     ELSE file.interpolate,
     bad_channels |-> dimindex(file.bad_channels)]

\* slip: the load is not registered as the saved state
Model_load_unsaved(s, id, path, file, cmd) ==
    LET new == read_rej_file(s.doc, path, file, cmd)
        action == ChangeAction(id, "Load File", Val(Epochs),
                               DocRef, Val(new.accept),
                               DocRef, Val(new.tag),
                               s.doc.path, path,
                               Val(s.doc.bad_channels), Val(new.bad_channels),
                               DocRef, Val(new.interpolate))
    IN IF new.raised
       THEN [s EXCEPT !.raised = TRUE]
       ELSE History_do(s, action)

\* Model.load: the action is given the document's own accept, tag and
\* interpolate objects as old values, and full_slice as index
Model_load(s, id, path, file, cmd) ==
    LET new == read_rej_file(s.doc, path, file, cmd)
        action == ChangeAction(id, "Load File", Val(Epochs),
                               DocRef, Val(new.accept),
                               DocRef, Val(new.tag),
                               s.doc.path, path,
                               Val(s.doc.bad_channels), Val(new.bad_channels),
                               DocRef, Val(new.interpolate))
    IN IF new.raised
       THEN [s EXCEPT !.raised = TRUE]
       ELSE History_register_save(History_do(s, action))

\* Model.set_bad_channels
Model_set_bad_channels(s, id, bad_channels) ==
    LET action == ChangeAction(id, "Set bad channels", None, None, None, None,
                               None, NoPath, NoPath,
                               Val(s.doc.bad_channels), Val(bad_channels),
                               None, None)
    IN History_do(s, action)

\* Model.set_interpolation
Model_set_interpolation(s, id, case, ch_names) ==
    LET action == ChangeAction(id, "Epoch interpolate", Val({case}),
                               None, None, None, None, NoPath, NoPath,
                               None, None,
                               Val(case :> s.doc.interpolate[case]),
                               Val(case :> ch_names))
    IN History_do(s, action)

\* Model.toggle_interpolation
Model_toggle_interpolation(s, id, case, ch_name) ==
    LET old_interpolate == s.doc.interpolate[case]
        new_interpolate == IF ch_name \in SeqRange(old_interpolate)
                           THEN Remove(old_interpolate, ch_name)
                           ELSE Append(old_interpolate, ch_name)
        desc == IF ch_name \in SeqRange(old_interpolate)
                THEN "Don't interpolate" ELSE "Interpolate"
        action == ChangeAction(id, desc, Val({case}),
                               None, None, None, None, NoPath, NoPath,
                               None, None,
                               Val(case :> old_interpolate),
                               Val(case :> new_interpolate))
    IN History_do(s, action)

\* Datalist._update_listlist: each list gets the elements of the other list
\* it does not have yet
UpdateListlist(cur, other) ==
    [c \in Epochs |-> cur[c] \o SelectSeq(other[c], LAMBDA ch : ch \notin SeqRange(cur[c]))]

\* Model.update_bad_chs: bad_chs is None or a list of sensor names, interp is
\* None or a list of sensor names for each epoch; old_bad_chs and
\* new_bad_chs of the action are sensor names
Model_update_bad_chs(s, id, bad_chs, interp, desc) ==
    LET merged == IF interp.kind = "none"
                  THEN s.doc.interpolate
                  ELSE UpdateListlist(s.doc.interpolate, interp.v)
        index == {c \in Epochs : merged[c] # s.doc.interpolate[c]}
        has_index == interp.kind # "none" /\ index # {}
        old_bad_chs == bad_channel_names(s.doc)
        add == /\ bad_chs.kind # "none"
               /\ \E ch \in SeqRange(bad_chs.v) : ch \notin SeqRange(old_bad_chs)
        new_bad_chs == SortedSeq(SeqRange(old_bad_chs) \cup SeqRange(bad_chs.v))
        action == ChangeAction(id, desc,
                               IF has_index THEN Val(index) ELSE None,
                               None, None, None, None, NoPath, NoPath,
                               IF add THEN Val(old_bad_chs) ELSE None,
                               IF add THEN Val(new_bad_chs) ELSE None,
                               IF has_index
                               THEN Val([c \in index |-> s.doc.interpolate[c]])
                               ELSE None,
                               IF has_index
                               THEN Val([c \in index |-> merged[c]])
                               ELSE None)
    IN IF bad_channel_names_raises(s.doc)
       THEN [s EXCEPT !.raised = TRUE]
       ELSE History_do(s, action)

\* slip: the options are taken the other way round
Model_update_rejection_swapped(s, id, new_accept, mark_good, mark_bad, desc, new_tag) ==
    LET changed == {c \in Epochs : new_accept[c] # s.doc.accept[c]}
        index == IF ~mark_bad
                 THEN {c \in Epochs : ~new_accept[c]} \cap changed
                 ELSE IF ~mark_good
                 THEN {c \in Epochs : new_accept[c]} \cap changed
                 ELSE changed
        action == ChangeAction(id, desc, Val(index),
                               Val([c \in index |-> s.doc.accept[c]]),
                               Val([c \in index |-> new_accept[c]]),
                               Val([c \in index |-> s.doc.tag[c]]),
                               Val([c \in index |-> new_tag]),
                               NoPath, NoPath, None, None, None, None)
    IN History_do(s, action)

\* Model.update_rejection
Model_update_rejection(s, id, new_accept, mark_good, mark_bad, desc, new_tag) ==
    LET changed == {c \in Epochs : new_accept[c] # s.doc.accept[c]}
        index == IF ~mark_good
                 THEN {c \in Epochs : ~new_accept[c]} \cap changed
                 ELSE IF ~mark_bad
                 THEN {c \in Epochs : new_accept[c]} \cap changed
                 ELSE changed
        \* with mark_good only, index is new_accept itself and
        \* np.logical_and(index, ..., index) writes into it
        new_accept_now == IF mark_good /\ ~mark_bad
                          THEN [c \in Epochs |-> c \in index]
                          ELSE new_accept
        action == ChangeAction(id, desc, Val(index),
                               Val([c \in index |-> s.doc.accept[c]]),
                               Val([c \in index |-> new_accept_now[c]]),
                               Val([c \in index |-> s.doc.tag[c]]),
                               Val([c \in index |-> new_tag]),
                               NoPath, NoPath, None, None, None, None)
    IN History_do(s, action)

----------------------------------------------------------------------------
(* Frame: the handlers of the window.  An axes object is None (outside any *)
(* axes) or has ax_idx and epoch_idx.                                      *)

MEAN_PLOT == -1
TOPO_PLOT == -2

\* the axes of the page: one for each epoch shown (ax_idx counts from 0 in
\* the order of the epochs), the page mean and the topomap
Axes(d) ==
    {Val([ax_idx |-> Cardinality({x \in DOMAIN d.frame.plots : x < e}), epoch_idx |-> e]) :
        e \in DOMAIN d.frame.plots}
    \cup {Val([ax_idx |-> MEAN_PLOT, epoch_idx |-> MEAN_PLOT]),
          Val([ax_idx |-> TOPO_PLOT, epoch_idx |-> TOPO_PLOT])}

\* slip: the position of the axes is taken for the epoch
Frame_OnCanvasClick_ax_idx(s, id, ax) ==
    IF ax.kind # "none" /\ ax.v.ax_idx >= 0
    THEN LET idx == ax.v.ax_idx
         IN Model_set_case(s, id, idx, ~s.doc.accept[idx], Val("manual"), "Epoch")
    ELSE s

\* Frame.OnCanvasClick
Frame_OnCanvasClick(s, id, ax) ==
    IF ax.kind # "none" /\ ax.v.ax_idx >= 0
    THEN LET idx == ax.v.epoch_idx
         IN Model_set_case(s, id, idx, ~s.doc.accept[idx], Val("manual"), "Epoch")
    ELSE s

\* Frame.ToggleChannelInterpolation: sensor_name is the sensor of the plot
\* nearest to the pointer
Frame_ToggleChannelInterpolation(s, id, ax, sensor_name) ==
    IF ~s.doc.allow_interpolation
    THEN s
    ELSE Model_toggle_interpolation(s, id, ax.v.epoch_idx, sensor_name)

\* Frame.OnSetInterpolation: rcode and new are the answer of the dialog
Frame_OnSetInterpolation(s, id, epoch, rcode, new) ==
    LET old == s.doc.interpolate[epoch]
    IN IF rcode = "ID_OK" /\ new # old
       THEN Model_set_interpolation(s, id, epoch, new)
       ELSE s

\* Frame.CanForward, Frame.CanBackward
CanForward(d) == d.frame.page < NPages - 1
CanBackward(d) == d.frame.page > 0

\* Frame.OnCanvasKey
Frame_OnCanvasKey(s, id, key, ax, sensor_name, rcode, new) ==
    CASE key = "right" ->
            IF CanForward(s.doc)
            THEN [s EXCEPT !.doc = Frame_SetPage(s.doc, s.doc.frame.page + 1)]
            ELSE s
      [] key = "left" ->
            IF CanBackward(s.doc)
            THEN [s EXCEPT !.doc = Frame_SetPage(s.doc, s.doc.frame.page - 1)]
            ELSE s
      [] key = "u" ->
            IF can_undo(s.history, s.last_action_idx) THEN History_undo(s) ELSE s
      [] key = "U" ->
            IF can_redo(s.last_action_idx) THEN History_redo(s) ELSE s
      [] OTHER ->
            IF ax.kind = "none" \/ ax.v.ax_idx = TOPO_PLOT THEN s
            ELSE IF key \in {"t", "b", "c"} THEN s
            ELSE IF ax.v.ax_idx = MEAN_PLOT THEN s
            ELSE IF key = "i"
            THEN Frame_ToggleChannelInterpolation(s, id, ax, sensor_name)
            ELSE IF key = "I"
            THEN Frame_OnSetInterpolation(s, id, ax.v.epoch_idx, rcode, new)
            ELSE s

\* any(interp): some epoch has a channel
AnyList(x) == x.kind # "none" /\ \E c \in Epochs : x.v[c] # <<>>

\* Frame.OnFindNoisyChannels: rcode and do_apply are the answer of the
\* dialog; flats, flats_av and noisies are what was found (None when the
\* criterion is not used)
Frame_OnFindNoisyChannels(s, id, rcode, do_apply, flats, flats_av, noisies) ==
    LET has_flats == AnyList(flats)
        has_noisies == AnyList(noisies)
        interp == IF has_flats /\ has_noisies
                  THEN Val(UpdateListlist(flats.v, noisies.v))
                  ELSE IF has_flats THEN flats
                  ELSE IF has_noisies THEN noisies
                  ELSE None
    IN IF rcode = "ID_OK" /\ do_apply
       THEN Model_update_bad_chs(s, id, flats_av, interp, "Find noisy channels")
       ELSE s

\* Frame.OnSetBadChannels: the dialog shows the bad channel names; rcode and
\* names are its answer
Frame_OnSetBadChannels(s, id, rcode, names) ==
    IF bad_channel_names_raises(s.doc)
    THEN [s EXCEPT !.raised = TRUE]
    ELSE IF rcode = "ID_OK"
    THEN Model_set_bad_channels(s, id, dimindex(names))
    ELSE s

\* FileFrame.OnOpen: rcode and path are the answer of the file dialog
FileFrame_OnOpen(s, id, rcode, path, file, cmd) ==
    IF rcode # "ID_OK"
    THEN [s EXCEPT !.ret = rcode]
    ELSE Model_load(s, id, path, file, cmd)

\* Frame.__init__: the Frame subscribes to the document and the history,
\* shows page 0 and sets the title
Frame_init(d) ==
    FileFrame_UpdateTitle(Frame_ShowPage([d EXCEPT !.frame.attached = TRUE], 0))

----------------------------------------------------------------------------
(* Frame: the layout of the canvas and the Set Plot Layout dialog.  The    *)
(* entry of the dialog is a str of digits ("0" .. "9"), words and " ".     *)

Digits == <<"0", "1", "2", "3", "4", "5", "6", "7", "8", "9">>

\* item.isdigit()
isdigit(item) == item # <<>> /\ \A k \in 1 .. Len(item) : item[k] \in SeqRange(Digits)

\* int(item) for an item of digits
RECURSIVE int(_)
int(item) ==
    IF item = <<>> THEN 0
    ELSE 10 * int(SubSeq(item, 1, Len(item) - 1)) + (list_index(Digits, item[Len(item)]) - 1)

\* while not items[-1].isdigit(): options.append(items.pop(-1));
\* items[-1] of an empty list raises IndexError
RECURSIVE pop_options(_, _)
pop_options(items, options) ==
    IF items = <<>> THEN [raised |-> "IndexError", items |-> items, options |-> options]
    ELSE IF isdigit(items[Len(items)])
    THEN [raised |-> "None", items |-> items, options |-> options]
    ELSE pop_options(SubSeq(items, 1, Len(items) - 1), Append(options, items[Len(items)]))

\* the layout info of the items: an int, a tuple of two int, or None with
\* err rebound to a str
layout_info(items) ==
    IF Len(items) = 1 /\ isdigit(items[1]) THEN PyInt(int(items[1]))
    ELSE IF Len(items) = 2 /\ \A k \in 1 .. 2 : isdigit(items[k])
    THEN <<"tuple", <<int(items[1]), int(items[2])>>>>
    ELSE PyNone

\* one pass of the loop of Frame.OnSetLayout after ShowModal returned ID_OK:
\* the exception raised, or whether the loop ends (done) with nplots, topo
\* and mean, or the message box is shown (box)
OnSetLayout_entry(value) ==
    Only({IF o.raised # "None"
          THEN [raised |-> o.raised, done |-> FALSE, box |-> FALSE,
                nplots |-> PyNone, topo |-> TRUE, mean |-> TRUE]
          ELSE Only({[raised |-> IF nplots = PyNone THEN "AttributeError" ELSE "None",
                      done |-> Truthy(nplots) /\ err = <<>>,
                      box |-> nplots # PyNone /\ ~(Truthy(nplots) /\ err = <<>>),
                      nplots |-> nplots,
                      topo |-> <<"notopo">> \notin SeqRange(o.options),
                      mean |-> <<"nomean">> \notin SeqRange(o.options)] :
                        nplots \in {layout_info(o.items)},
                        err \in {SelectSeq(o.options,
                                           LAMBDA x : x \notin {<<"nomean">>, <<"notopo">>})}}) :
             o \in {pop_options(split(value, " "), <<>>)}})

\* math.ceil(math.sqrt(n))
CeilSqrt(n) == CHOOSE r \in 0 .. n : r * r >= n /\ (r = 0 \/ (r - 1) * (r - 1) < n)

\* math.ceil(n / m), with the division of __future__
CeilDiv(n, m) == (n + m - 1) \div m

\* the wx.Config of a first session: the defaults of the reads
Config == [n_rows |-> 6, n_cols |-> 6, show_topo |-> TRUE, show_mean |-> TRUE]

\* the attributes Frame._SetLayout sets from nrow, ncol and n_per_page
Layout(nrow, ncol, n_per_page, topo, mean) ==
    [_nplots |-> <<nrow, ncol>>, _plot_mean |-> mean, _plot_topo |-> topo,
     _n_per_page |-> n_per_page, _n_pages |-> CeilDiv(NEpochs, n_per_page)]

\* bool(topo) + bool(mean)
Extra(topo, mean) == (IF topo THEN 1 ELSE 0) + (IF mean THEN 1 ELSE 0)

\* Frame._SetLayout for an int nplots >= 1
SetLayout_square(nplots, topo, mean) ==
    Only({Layout(nrow, CeilDiv(nplots + Extra(topo, mean), nrow), nplots, topo, mean) :
             nrow \in {CeilSqrt(nplots + Extra(topo, mean))}})

\* Frame._SetLayout for nplots = (nrow, ncol) with at least one plot
SetLayout_grid(nrow, ncol, topo, mean) ==
    Layout(nrow, ncol, nrow * ncol - Extra(topo, mean), topo, mean)

\* Frame._SetLayout: the layout, or the exception raised before it is set;
\* nplots is None, an int or a tuple, topo and mean are None or a bool
Frame_SetLayout(nplots, topo, mean) ==
    Only({IF nplots = PyNone
          THEN Return(SetLayout_grid(Config.n_rows, Config.n_cols, t, m))
          ELSE IF IsInt(nplots)
          THEN IF nplots[2] < 1 THEN Raise("ValueError")
               ELSE Return(SetLayout_square(nplots[2], t, m /\ nplots[2] # 1))
          ELSE Only({IF nax < 1 THEN Raise("ValueError")
                     ELSE Return(SetLayout_grid(nplots[2][1], nplots[2][2],
                                                t /\ nax # 1, m /\ nax \notin {1, 2})) :
                        nax \in {nplots[2][1] * nplots[2][2]}}) :
             t \in {IF topo = PyNone THEN Config.show_topo ELSE topo[2]},
             m \in {IF mean = PyNone THEN Config.show_mean ELSE mean[2]}})

\* the layout of Frame.__init__ for the arguments of TerminalInterface
DefaultLayout == Frame_SetLayout(PyNone, PyNone, PyNone).value

\* what the last handler of the layout did: the entry, the exception that
\* ended it, whether the message box was shown
LayoutEvent(op, value, raised, box) == [op |-> op, value |-> value, raised |-> raised, box |-> box]

\* the Frame after __init__: its layout, page 0, no dialog
NoLayout ==
    [frame |-> DefaultLayout, page |-> 0, dlg |-> FALSE,
     last |-> LayoutEvent("init", <<>>, "None", FALSE)]

\* Frame.SetLayout: _SetLayout, then ShowPage(0)
Frame_SetLayout_ShowPage(l, value, nplots, topo, mean) ==
    Only({IF r.raised # "None"
          THEN [l EXCEPT !.dlg = FALSE, !.last = LayoutEvent("entry", value, r.raised, FALSE)]
          ELSE [frame |-> r.value, page |-> 0, dlg |-> FALSE,
                last |-> LayoutEvent("entry", value, "None", FALSE)] :
             r \in {Frame_SetLayout(nplots, PyBool(topo), PyBool(mean))}})

\* Frame.OnSetLayout from a ShowModal that returns ID_OK to the next
\* ShowModal, or to the end of the handler
Frame_OnSetLayout_OK(l, value) ==
    Only({IF e.raised # "None"
          THEN [l EXCEPT !.dlg = FALSE, !.last = LayoutEvent("entry", value, e.raised, FALSE)]
          ELSE IF e.done THEN Frame_SetLayout_ShowPage(l, value, e.nplots, e.topo, e.mean)
          ELSE [l EXCEPT !.last = LayoutEvent("entry", value, "None", e.box)] :
             e \in {OnSetLayout_entry(value)}})

----------------------------------------------------------------------------
(* The state machine *)

\* the program state an operation starts from
S == [history |-> history, last_action_idx |-> last_action_idx,
      saved_idx |-> saved_idx, doc |-> doc,
      calls |-> <<>>, notified |-> <<>>,
      raised |-> FALSE, ret |-> "None", vetoed |-> FALSE, skipped |-> FALSE]

\* the meaning of the calls for the document: which actions are in effect,
\* which are undone, which are discarded, and what was in effect when saved
G == [applied |-> applied, undone |-> undone, discarded |-> discarded,
      savedApplied |-> savedApplied]

GhostStep(g, c) ==
    CASE c.m = "do" /\ c.id \in SeqRange(g.undone) ->
            [g EXCEPT !.applied = Append(g.applied, c.id),
                      !.undone = Remove(g.undone, c.id)]
      [] c.m = "do" /\ c.id \notin SeqRange(g.undone) ->
            [g EXCEPT !.applied = Append(g.applied, c.id),
                      !.undone = <<>>,
                      !.discarded = g.discarded \cup SeqRange(g.undone)]
      [] c.m = "undo" ->
            [g EXCEPT !.applied = Remove(g.applied, c.id),
                      !.undone = Append(g.undone, c.id)]
      [] c.m = "register_save" ->
            [g EXCEPT !.savedApplied = g.applied]

RECURSIVE GhostFold(_, _)
GhostFold(g, calls) ==
    IF calls = <<>> THEN g
    ELSE GhostFold(GhostStep(g, Head(calls)), Tail(calls))

\* the snapshots taken before the undos that are not redone yet
SnapAfter(op, raised) ==
    IF raised THEN undoSnap
    ELSE CASE op = "undo" -> Append(undoSnap, <<history, last_action_idx>>)
           [] op = "redo" -> SubSeq(undoSnap, 1, Len(undoSnap) - 1)
           [] op \in {"do", "load"} -> <<>>
           [] OTHER -> undoSnap

\* the document before and after each action of the history was first done
SnapsAfter(r, made) ==
    LET all == IF made = 1
               THEN Append(snaps, [id |-> nextId,
                                   before |-> DocData(doc),
                                   after |-> DocData(r.doc)])
               ELSE snaps
    IN SelectSeq(all, LAMBDA e : \E k \in 1 .. Len(r.history) : r.history[k].id = e.id)

\* no test definitions were given
NoRound == [key |-> 0, dict |-> PyNone, raised |-> "None", value |-> PyNone]
NoTests == [test_dict |-> <<>>, called |-> FALSE, raised |-> "None", value |-> PyNone, round |-> NoRound]

\* an operation named op took the program from S to s, creating made actions
Commit(op, s, made, ev) ==
    \E r \in {s} : \E g \in {GhostFold(G, r.calls)} :
       /\ history' = r.history
       /\ last_action_idx' = r.last_action_idx
       /\ saved_idx' = r.saved_idx
       /\ doc' = r.doc
       /\ applied' = g.applied
       /\ undone' = g.undone
       /\ discarded' = g.discarded
       /\ savedApplied' = g.savedApplied
       /\ undoSnap' = SnapAfter(op, r.raised)
       /\ nextId' = nextId + made
       /\ snaps' = SnapsAfter(r, made)
       /\ last' = [op |-> op, raised |-> r.raised, calls |-> r.calls,
                   notified |-> r.notified, ret |-> r.ret,
                   vetoed |-> r.vetoed, skipped |-> r.skipped,
                   ev |-> ev]
       /\ UNCHANGED <<subs, tests, layout>>

\* what the operation was called with: the close event, or the name of the
\* handler followed by its arguments
Event(arg) == [canVeto |-> FALSE, cmd |-> "None", arg |-> arg]
NoEvent == Event(<<"">>)

InitDoc(acc, p) ==
    [accept |-> acc,
     tag |-> [c \in Epochs |-> ""],
     interpolate |-> [c \in Epochs |-> <<>>],
     bad_channels |-> <<>>,
     path |-> p,
     saved |-> TRUE,
     allow_interpolation |-> TRUE,
     frame |-> NoFrame]

InitPaths == {NoPath, Path("a", ".txt")}

\* the dataset may come with an accept variable
InitAccepts == {[c \in Epochs |-> TRUE], [c \in Epochs |-> c # 0]}

Init ==
    /\ history = <<>>
    /\ last_action_idx = -1
    /\ saved_idx = -1
    /\ subs = <<>>
    /\ \E acc \in InitAccepts : doc = InitDoc(acc, NoPath)
    /\ window = "open"
    /\ applied = <<>>
    /\ undone = <<>>
    /\ discarded = {}
    /\ savedApplied = <<>>
    /\ undoSnap = <<>>
    /\ snaps = <<>>
    /\ nextId = 1
    /\ tests = NoTests
    /\ layout = NoLayout
    /\ last = [op |-> "init", raised |-> FALSE, calls |-> <<>>,
               notified |-> <<>>, ret |-> "None", vetoed |-> FALSE,
               skipped |-> FALSE, ev |-> NoEvent]

\* Frame.OnCanvasClick on the plot of epoch i; at most max actions are made
OnCanvasClick(max) ==
    /\ window = "open"
    /\ nextId <= max
    /\ \E i \in Epochs :
          Commit("do", Model_set_case(S, nextId, i, ~doc.accept[i],
                                      Val("manual"), "Epoch"), 1, NoEvent)
    /\ UNCHANGED window

\* History.undo
Undo ==
    /\ window = "open"
    /\ ~History_undo_raises(S)
    /\ Commit("undo", History_undo(S), 0, NoEvent)
    /\ UNCHANGED window

UndoRaises ==
    /\ window = "open"
    /\ History_undo_raises(S)
    /\ Commit("undo", [S EXCEPT !.raised = TRUE], 0, NoEvent)
    /\ UNCHANGED window

\* History.redo
Redo ==
    /\ window = "open"
    /\ ~History_redo_raises(S)
    /\ Commit("redo", History_redo(S), 0, NoEvent)
    /\ UNCHANGED window

RedoRaises ==
    /\ window = "open"
    /\ History_redo_raises(S)
    /\ Commit("redo", [S EXCEPT !.raised = TRUE], 0, NoEvent)
    /\ UNCHANGED window

\* History.register_save
RegisterSave ==
    /\ window = "open"
    /\ Commit("register_save", History_register_save(S), 0, NoEvent)
    /\ UNCHANGED window

\* History.subscribe_to_saved_change; views subscribe when they are
\* constructed (FileFrame.__init__), before any operation
Subscribe ==
    /\ window = "open"
    /\ last.op \in {"init", "subscribe"}
    /\ Len(subs) < MaxSubs
    /\ subs' = Append(subs, Len(subs) + 1)
    /\ last' = [op |-> "subscribe", raised |-> FALSE, calls |-> <<>>,
                notified |-> <<>>, ret |-> "None", vetoed |-> FALSE,
                skipped |-> FALSE, ev |-> NoEvent]
    /\ UNCHANGED <<history, last_action_idx, saved_idx, doc, window, ghostVars, tests, layout>>

SavePaths == {Path("b", ""), Path("d", ".csv")}
DialogCodes == {"ID_OK", "ID_CANCEL"}

\* FileFrame.OnSave
OnSave ==
    /\ window = "open"
    /\ \E rcode \in DialogCodes, path \in SavePaths :
          Commit("save", FileFrame_OnSave(S, rcode, path), 0, NoEvent)
    /\ UNCHANGED window

\* FileFrame.OnClose
OnClose ==
    /\ window = "open"
    /\ \E canVeto \in BOOLEAN, cmd \in {"YES", "NO", "CANCEL"},
          rcode \in DialogCodes, path \in SavePaths :
          LET r == FileFrame_OnClose(S, canVeto, cmd, rcode, path)
          IN /\ Commit("close", r, 0, [canVeto |-> canVeto, cmd |-> cmd, arg |-> <<"close">>])
             /\ window' = IF r.skipped THEN "closed" ELSE "open"

\* the History object under its public interface
Next ==
    \/ OnCanvasClick(MaxActions)
    \/ Undo
    \/ UndoRaises
    \/ Redo
    \/ RedoRaises
    \/ RegisterSave
    \/ Subscribe

Spec == Init /\ [][Next]_vars

\* the frame with its save and close handlers
NextFrame ==
    \/ OnCanvasClick(MaxModelActions)
    \/ Undo
    \/ Redo
    \/ OnSave
    \/ OnClose

SpecFrame == Init /\ [][NextFrame]_vars

----------------------------------------------------------------------------
(* The Model: every way to create an action *)

\* the sessions: path and allow_interpolation of Document.__init__
Sessions == {<<NoPath, TRUE>>, <<Path("a", ".txt"), TRUE>>, <<NoPath, FALSE>>}

InitModel ==
    /\ history = <<>>
    /\ last_action_idx = -1
    /\ saved_idx = -1
    /\ subs = <<1>>
    /\ \E o \in Sessions :
          doc = [InitDoc([c \in Epochs |-> TRUE], o[1])
                    EXCEPT !.allow_interpolation = o[2]]
    /\ window = "open"
    /\ applied = <<>>
    /\ undone = <<>>
    /\ discarded = {}
    /\ savedApplied = <<>>
    /\ undoSnap = <<>>
    /\ snaps = <<>>
    /\ nextId = 1
    /\ tests = NoTests
    /\ layout = NoLayout
    /\ last = [op |-> "init", raised |-> FALSE, calls |-> <<>>,
               notified |-> <<>>, ret |-> "None", vetoed |-> FALSE,
               skipped |-> FALSE, ev |-> NoEvent]

CanMake == window = "open" /\ nextId <= MaxModelActions

\* rejection files that fit the data
Files ==
    {[accept |-> [c \in Epochs |-> c = 0],
      tag |-> [c \in Epochs |-> "file"],
      interpolate |-> [c \in Epochs |-> IF c = 0 THEN <<SensorName(0)>> ELSE <<>>],
      bad_channels |-> <<SensorName(0)>>],
     [accept |-> [c \in Epochs |-> TRUE],
      tag |-> [c \in Epochs |-> ""],
      interpolate |-> [c \in Epochs |-> <<>>],
      bad_channels |-> <<>>]}

LoadPaths == {Path("f", ".txt"), Path("g", ".csv")}

\* the epochs and sensors the handlers are tried on
Cases == {0, NEpochs - 1}
Names == {SensorName(0), SensorName(NSensors - 1)}

SetCaseArgs == {<<TRUE, Val("manual")>>, <<FALSE, Val("manual")>>, <<FALSE, None>>}

SetCase ==
    /\ CanMake
    /\ \E i \in Cases, a \in SetCaseArgs :
          Commit("do", Model_set_case(S, nextId, i, a[1], a[2], "Manual Change"),
                 1, NoEvent)
    /\ UNCHANGED window

Clear ==
    /\ CanMake
    /\ Commit("do", Model_clear(S, nextId), 1, NoEvent)
    /\ UNCHANGED window

\* threshold results; the dialog's options (mark good, mark bad)
NewAccepts == {[c \in Epochs |-> FALSE], [c \in Epochs |-> c = 0]}
Marks == {<<TRUE, TRUE>>, <<TRUE, FALSE>>, <<FALSE, TRUE>>}

UpdateRejection ==
    /\ CanMake
    /\ \E new_accept \in NewAccepts, m \in Marks :
          Commit("do",
                 Model_update_rejection(S, nextId, new_accept, m[1], m[2],
                                        "Threshold", "thr"),
                 1, Event(<<"update_rejection", new_accept, m[1], m[2], "thr">>))
    /\ UNCHANGED window

SetInterpolation ==
    /\ CanMake
    /\ \E case \in Cases,
          ch_names \in {<<>>, <<SensorName(NSensors - 1), SensorName(0)>>} :
          Commit("do", Model_set_interpolation(S, nextId, case, ch_names),
                 1, NoEvent)
    /\ UNCHANGED window

ToggleInterpolation ==
    /\ CanMake
    /\ \E case \in Cases, ch_name \in Names :
          Commit("do", Model_toggle_interpolation(S, nextId, case, ch_name),
                 1, NoEvent)
    /\ UNCHANGED window

SetBadChannels ==
    /\ CanMake
    /\ \E bad_channels \in {<<>>, <<PyInt(NSensors - 1)>>,
                                <<PyInt(NSensors - 1), PyInt(0)>>} :
          Commit("do", Model_set_bad_channels(S, nextId, bad_channels),
                 1, NoEvent)
    /\ UNCHANGED window

\* the answers to give to the question of read_rej_file, if it is asked
Answers(file) ==
    IF read_rej_file_asks(doc, file) THEN {"OK", "CANCEL"} ELSE {"None"}

Load ==
    /\ CanMake
    /\ \E path \in LoadPaths, file \in Files : \E cmd \in Answers(file) :
          /\ ~read_rej_file(doc, path, file, cmd).raised
          /\ Commit("load", Model_load(S, nextId, path, file, cmd), 1,
                    Event(<<"load", path, file, cmd>>))
    /\ UNCHANGED window

LoadRaises ==
    /\ CanMake
    /\ \E path \in LoadPaths, file \in Files : \E cmd \in Answers(file) :
          /\ read_rej_file(doc, path, file, cmd).raised
          /\ Commit("load", Model_load(S, nextId, path, file, cmd), 0,
                    Event(<<"load", path, file, cmd>>))
    /\ UNCHANGED window

NextModel ==
    \/ SetCase
    \/ Clear
    \/ UpdateRejection
    \/ SetInterpolation
    \/ ToggleInterpolation
    \/ SetBadChannels
    \/ Load
    \/ LoadRaises
    \/ Undo
    \/ Redo

SpecModel == InitModel /\ [][NextModel]_vars

----------------------------------------------------------------------------
(* The Frame: the handlers of the epoch selection window *)

\* a session with or without interpolation
InitFrame(allow_interpolation) ==
    /\ history = <<>>
    /\ last_action_idx = -1
    /\ saved_idx = -1
    /\ subs = <<1>>
    /\ doc = Frame_init([InitDoc([c \in Epochs |-> TRUE], NoPath)
                            EXCEPT !.allow_interpolation = allow_interpolation])
    /\ window = "open"
    /\ applied = <<>>
    /\ undone = <<>>
    /\ discarded = {}
    /\ savedApplied = <<>>
    /\ undoSnap = <<>>
    /\ snaps = <<>>
    /\ nextId = 1
    /\ tests = NoTests
    /\ layout = NoLayout
    /\ last = [op |-> "init", raised |-> FALSE, calls |-> <<>>,
               notified |-> <<>>, ret |-> "None", vetoed |-> FALSE,
               skipped |-> FALSE, ev |-> NoEvent]

\* 1 if the handler made a new action and did it, else 0
Made(r) ==
    IF \E k \in 1 .. Len(r.calls) : r.calls[k] = [m |-> "do", id |-> nextId]
    THEN 1 ELSE 0

\* the handler named arg[1] took the program from S to r; op is what it did
\* to the history
Handle(op, r, arg) ==
    /\ window = "open"
    /\ \E made \in {Made(r)} :
          /\ made = 0 \/ nextId <= MaxModelActions
          /\ Commit(op, r, made, Event(arg))
    /\ UNCHANGED window

\* the axes that show an epoch
EpochAxes == {ax \in Axes(doc) : ax.v.ax_idx >= 0}

\* a mouse click on an axes of the page or outside
CanvasClick ==
    \E ax \in EpochAxes \cup {Val([ax_idx |-> MEAN_PLOT, epoch_idx |-> MEAN_PLOT]), None} :
       \E r \in {Frame_OnCanvasClick(S, nextId, ax)} :
          Handle(IF Made(r) = 1 THEN "do" ELSE "none", r, <<"click", ax>>)

\* the keys right and left
KeyPage ==
    \E key \in {"right", "left"} :
       \E r \in {Frame_OnCanvasKey(S, nextId, key, None, SensorName(0), "None", <<>>)} :
          Handle("page", r, <<"key", key>>)

\* the keys u and U
KeyUndoRedo ==
    \E key \in {"u", "U"} :
       \E r \in {Frame_OnCanvasKey(S, nextId, key, None, SensorName(0), "None", <<>>)} :
          Handle(IF r.calls = <<>> THEN "none" ELSE IF key = "u" THEN "undo" ELSE "redo",
                 r, <<"key", key>>)

\* the key i on the plot of an epoch, nearest to a sensor of the plot
KeyToggleInterpolation ==
    \E ax \in EpochAxes, sensor_name \in {SensorName(NSensors - 1)} \cap ChannelIdx(doc) :
       \E r \in {Frame_OnCanvasKey(S, nextId, "i", ax, sensor_name, "None", <<>>)} :
          Handle(IF Made(r) = 1 THEN "do" ELSE "none", r, <<"key", "i", ax, sensor_name>>)

\* the key shift-i on the plot of an epoch, and the answer to the dialog
KeySetInterpolation ==
    \E ax \in EpochAxes, new \in {<<SensorName(0)>>} :
       \E r \in {Frame_OnCanvasKey(S, nextId, "I", ax, SensorName(0), "ID_OK", new)} :
          Handle(IF Made(r) = 1 THEN "do" ELSE "none", r, <<"key", "I", ax, new>>)

\* what Find Bad Channels finds: <<flats, flats_av, noisies>>
Found ==
    {<<None, Val(<<SensorName(0)>>), None>>,
     <<Val([c \in Epochs |-> IF c = 0 THEN <<SensorName(NSensors - 1)>> ELSE <<>>]),
       None, None>>}

\* Find Bad Channels with Apply
FindNoisyChannels ==
    \E f \in Found :
       \E r \in {Frame_OnFindNoisyChannels(S, nextId, "ID_OK", TRUE, f[1], f[2], f[3])} :
          Handle(IF Made(r) = 1 THEN "do" ELSE "none", r, <<"find", f>>)

\* Set Bad Channels
SetBadChannelsDialog ==
    \E names \in {<<SensorName(0)>>} :
       \E r \in {Frame_OnSetBadChannels(S, nextId, "ID_OK", names)} :
          Handle(IF Made(r) = 1 THEN "do" ELSE "none", r, <<"bad_channels", names>>)

\* the file to open: an epoch with an interpolated channel that is bad
GuiFiles == {f \in Files : f.bad_channels # <<>>}

\* Open
Open ==
    \E path \in {Path("f", ".txt")}, file \in GuiFiles : \E cmd \in Answers(file) :
       \E r \in {FileFrame_OnOpen(S, nextId, "ID_OK", path, file, cmd)} :
          Handle("load", r, <<"load", path, file, cmd>>)

NextGui ==
    \/ CanvasClick
    \/ KeyPage
    \/ KeyUndoRedo
    \/ KeyToggleInterpolation
    \/ KeySetInterpolation
    \/ FindNoisyChannels
    \/ SetBadChannelsDialog
    \/ Open

InitGui == InitFrame(TRUE)

SpecGui == InitGui /\ [][NextGui]_vars

\* a session opened with allow_interpolation=False
InitNoInterpolation == InitFrame(FALSE)

SpecNoInterpolation == InitNoInterpolation /\ [][NextGui]_vars

----------------------------------------------------------------------------
(* The Frame and its file: open, save, save as, and the title *)

InitFile ==
    /\ history = <<>>
    /\ last_action_idx = -1
    /\ saved_idx = -1
    /\ subs = <<1>>
    /\ doc = Frame_init(InitDoc([c \in Epochs |-> TRUE], NoPath))
    /\ window = "open"
    /\ applied = <<>>
    /\ undone = <<>>
    /\ discarded = {}
    /\ savedApplied = <<>>
    /\ undoSnap = <<>>
    /\ snaps = <<>>
    /\ nextId = 1
    /\ tests = NoTests
    /\ layout = NoLayout
    /\ last = [op |-> "init", raised |-> FALSE, calls |-> <<>>,
               notified |-> <<>>, ret |-> "None", vetoed |-> FALSE,
               skipped |-> FALSE, ev |-> NoEvent]

\* FileFrame.OnSaveAs
OnSaveAs ==
    /\ window = "open"
    /\ \E rcode \in {"ID_OK"}, path \in SavePaths :
          Commit("save_as", FileFrame_OnSaveAs(S, rcode, path), 0, NoEvent)
    /\ UNCHANGED window

\* a mouse click on the plot of an epoch
ClickEpoch ==
    \E ax \in EpochAxes :
       \E r \in {Frame_OnCanvasClick(S, nextId, ax)} :
          Handle("do", r, <<"click", ax>>)

NextFile ==
    \/ ClickEpoch
    \/ KeyUndoRedo
    \/ Open
    \/ OnSave
    \/ OnSaveAs

SpecFile == InitFile /\ [][NextFile]_vars

----------------------------------------------------------------------------
(* The test definitions of an experiment: assemble_tests *)

\* 'side_left + modality_a' and its variables
Stage1 == PyStr(<<"side_left", " ", "+", " ", "modality_a">>)
Stage1Vars == PyDict([side_left |-> PyStr(<<"side">>), modality_a |-> PyStr(<<"modality">>)])
Kind(kind) == PyStr(<<kind>>)

\* test definitions with the parameters of their class
GoodDefinitions ==
    {PyDict(("stage 1" :> Stage1) @@ [kind |-> Kind("two-stage"), vars |-> Stage1Vars]),
     PyDict(("stage 1" :> Stage1) @@ [kind |-> Kind("two-stage"), vars |-> Stage1Vars,
                                      model |-> PyStr(<<"a", " ", "%", " ", "b">>)]),
     PyDict([kind |-> Kind("two-stage"), stage_1 |-> Stage1]),
     PyDict([kind |-> Kind("anova"), x |-> PyStr(<<"b", " ", "*", " ", "a", " ", "*", " ", "subject">>)]),
     PyDict([kind |-> Kind("anova"), x |-> PyStr(<<"a", "*", "subject">>),
             model |-> PyStr(<<"a", "%", "b">>)]),
     PyDict([kind |-> Kind("ttest_rel"), model |-> PyStr(<<"a">>),
             c1 |-> PyStr(<<"a">>), c0 |-> PyStr(<<"b">>), tail |-> PyInt(2)]),
     PyDict([kind |-> Kind("ttest_ind"), model |-> PyStr(<<"group">>),
             c1 |-> PyStr(<<"a">>), c0 |-> PyStr(<<"b">>)]),
     PyDict([kind |-> Kind("t_contrast_rel"), model |-> PyStr(<<"a">>),
             contrast |-> PyStr(<<"a", "+", "b">>), tail |-> PyInt(1)])}

\* a Test made before: TwoStageTest('side_left + modality_a')
MadeTest == Construct("TwoStageTest", [stage_1 |-> Stage1]).value

\* values that are no test definition, or define no test
BadDefinitions ==
    {PyNone,
     PyStr(<<"anova">>),
     PyDict([kind |-> Kind("ttest"), model |-> PyStr(<<"a">>)]),
     PyDict([kind |-> PyNone]),
     PyDict([x |-> PyStr(<<"a", "*", "subject">>)]),
     PyDict([kind |-> Kind("anova"), x |-> PyStr(<<"a">>), c1 |-> PyStr(<<"a">>)]),
     PyDict([kind |-> Kind("ttest_rel"), model |-> PyStr(<<"a">>)]),
     PyDict([kind |-> Kind("anova"), x |-> PyStr(<<"group", "*", "a">>)]),
     PyDict([kind |-> Kind("ttest_ind"), model |-> PyStr(<<"a">>),
             c1 |-> PyStr(<<"a">>), c0 |-> PyStr(<<"b">>)])}

Definitions == GoodDefinitions \cup {MadeTest} \cup BadDefinitions

\* the key of the i-th item of test_dict
TestKey(i) == <<"test", i>>

\* the items of the dicts of at most MaxTests definitions, in every order
TestDicts ==
    UNION {{[i \in 1 .. n |-> <<TestKey(i), f[i]>>] : f \in [1 .. n -> Definitions]} :
              n \in 1 .. MaxTests}

InitTests ==
    /\ history = <<>>
    /\ last_action_idx = -1
    /\ saved_idx = -1
    /\ subs = <<>>
    /\ doc = InitDoc([c \in Epochs |-> TRUE], NoPath)
    /\ window = "open"
    /\ applied = <<>>
    /\ undone = <<>>
    /\ discarded = {}
    /\ savedApplied = <<>>
    /\ undoSnap = <<>>
    /\ snaps = <<>>
    /\ nextId = 1
    /\ last = [op |-> "init", raised |-> FALSE, calls |-> <<>>,
               notified |-> <<>>, ret |-> "None", vetoed |-> FALSE,
               skipped |-> FALSE, ev |-> NoEvent]
    /\ \E test_dict \in TestDicts : tests = [NoTests EXCEPT !.test_dict = test_dict]
    /\ layout = NoLayout

\* assemble_tests(test_dict)
AssembleTests ==
    /\ ~tests.called
    /\ \E r \in {assemble_tests(tests.test_dict)} :
          tests' = [test_dict |-> tests.test_dict, called |-> TRUE,
                    raised |-> r.raised, value |-> r.value, round |-> NoRound]
    /\ UNCHANGED <<history, last_action_idx, saved_idx, subs, doc, window, last, ghostVars, layout>>

\* assemble_tests({key: t.as_dict()}) for a test t that assemble_tests made
\* from a definition dict
RoundTrip ==
    /\ tests.called
    /\ tests.raised = "None"
    /\ tests.round = NoRound
    /\ \E i \in 1 .. Len(tests.test_dict) :
          /\ tests.test_dict[i][2][1] = "dict"
          /\ \E d \in {as_dict(tests.value[2][TestKey(i)])} :
                \E r \in {IF d.raised # "None" THEN d
                           ELSE assemble_tests(<<<<TestKey(i), d.value>>>>)} :
                   tests' = [tests EXCEPT !.round = [key |-> i, dict |-> d.value,
                                                     raised |-> r.raised, value |-> r.value]]
    /\ UNCHANGED <<history, last_action_idx, saved_idx, subs, doc, window, last, ghostVars, layout>>

NextTests ==
    \/ AssembleTests
    \/ RoundTrip

SpecTests == InitTests /\ [][NextTests]_vars

----------------------------------------------------------------------------
(* The Set Plot Layout dialog *)

\* what the user may enter: '3', '1', '10', '2 2', '3 nomean', '2 notopo',
\* '1 3 nomean notopo', '3 foo', '0', 'nomean', '', '1 2 3', 'x 3', '0 0',
\* '2', '2 1', '4', '2 3', '4 notopo'
LayoutEntries ==
    {<<"2">>, <<"2", " ", "1">>, <<"4">>, <<"2", " ", "3">>, <<"4", " ", "notopo">>, <<"3">>, <<"1">>, <<"1", "0">>, <<"2", " ", "2">>, <<"3", " ", "nomean">>,
     <<"2", " ", "notopo">>, <<"1", " ", "3", " ", "nomean", " ", "notopo">>,
     <<"3", " ", "foo">>, <<"0">>, <<"nomean">>, <<>>,
     <<"1", " ", "2", " ", "3">>, <<"x", " ", "3">>, <<"0", " ", "0">>}

\* nplots of TerminalInterface: None, 1, (2, 2)
InitNplots == {PyNone, PyInt(1), <<"tuple", <<2, 2>>>>}

InitLayout ==
    /\ history = <<>>
    /\ last_action_idx = -1
    /\ saved_idx = -1
    /\ subs = <<>>
    /\ doc = InitDoc([c \in Epochs |-> TRUE], NoPath)
    /\ window = "open"
    /\ applied = <<>>
    /\ undone = <<>>
    /\ discarded = {}
    /\ savedApplied = <<>>
    /\ undoSnap = <<>>
    /\ snaps = <<>>
    /\ nextId = 1
    /\ last = [op |-> "init", raised |-> FALSE, calls |-> <<>>,
               notified |-> <<>>, ret |-> "None", vetoed |-> FALSE,
               skipped |-> FALSE, ev |-> NoEvent]
    /\ tests = NoTests
    /\ \E nplots \in InitNplots :
          layout = [NoLayout EXCEPT !.frame = Frame_SetLayout(nplots, PyNone, PyNone).value]

LayoutUnchanged == UNCHANGED <<history, last_action_idx, saved_idx, subs, doc, window, last, ghostVars, tests>>

\* Frame.OnSetLayout up to the first ShowModal: the dialog opens
OnSetLayout ==
    /\ ~layout.dlg
    /\ layout' = [layout EXCEPT !.dlg = TRUE, !.last = LayoutEvent("open", <<>>, "None", FALSE)]
    /\ LayoutUnchanged

\* the user enters a value and presses OK
LayoutEntry ==
    /\ layout.dlg
    /\ \E value \in LayoutEntries : layout' = Frame_OnSetLayout_OK(layout, value)
    /\ LayoutUnchanged

\* the user cancels the dialog: dlg.Destroy() and return
LayoutCancel ==
    /\ layout.dlg
    /\ layout' = [layout EXCEPT !.dlg = FALSE, !.last = LayoutEvent("cancel", <<>>, "None", FALSE)]
    /\ LayoutUnchanged

\* Frame.OnForward while no dialog is shown
LayoutForward ==
    /\ ~layout.dlg
    /\ layout.page < layout.frame._n_pages - 1
    /\ layout' = [layout EXCEPT !.page = @ + 1, !.last = LayoutEvent("forward", <<>>, "None", FALSE)]
    /\ LayoutUnchanged

\* Frame.OnBackward while no dialog is shown
LayoutBackward ==
    /\ ~layout.dlg
    /\ layout.page > 0
    /\ layout' = [layout EXCEPT !.page = @ - 1, !.last = LayoutEvent("backward", <<>>, "None", FALSE)]
    /\ LayoutUnchanged

NextLayout ==
    \/ OnSetLayout
    \/ LayoutEntry
    \/ LayoutCancel
    \/ LayoutForward
    \/ LayoutBackward

SpecLayout == InitLayout /\ [][NextLayout]_vars

----------------------------------------------------------------------------
(* Claims about History *)

IsSaved == is_saved(history, last_action_idx, saved_idx)
CanUndo == can_undo(history, last_action_idx)
CanRedo == can_redo(last_action_idx)
Ids(h) == [k \in 1 .. Len(h) |-> h[k].id]
Ran(op) == last.op = op /\ ~last.raised

\* C1: when do(action) is called while can_redo() is True, the history is
\* afterwards the previously applied actions in their order followed by the
\* new action, can_redo() is False, and the undone actions are discarded: no
\* discarded action is in effect in the document again, whatever is redone.
C1_DoDiscardsUndone ==
    [][/\ (last'.op = "do" /\ CanRedo) =>
             /\ Ids(history') = Append(applied, nextId)
             /\ SubSeq(history', 1, Len(applied)) = SubSeq(history, 1, Len(applied))
             /\ ~CanRedo'
             /\ SeqRange(undone) \subseteq discarded'
       /\ SeqRange(applied') \cap discarded' = {}
       /\ (Ran("redo"))' => last'.calls[1].id \notin discarded]_vars

\* a redo after a do that discarded an undone action
C1_Witness ==
    /\ Ran("redo")
    /\ discarded # {}

\* C2: is_saved() is True exactly when the actions currently applied are the
\* actions that were applied at the most recent register_save() (none, if
\* register_save() was never called).
C2_SavedIffNoUnsavedChanges ==
    IsSaved <=> (applied = savedApplied)

\* C3: undo() calls undo of the most recently applied action and redo() calls
\* do of the most recently undone action, and nothing else; a redo brings the
\* list of actions and the position back to what they were before the undo it
\* reverts, so k undos followed by k redos restore both.
C3_LinearUndoRedo ==
    [][/\ (Ran("undo"))' =>
             /\ applied # <<>>
             /\ last'.calls = <<[m |-> "undo", id |-> applied[Len(applied)]]>>
             /\ doc' = [ChangeAction_undo(PyIndex(history, last_action_idx), doc)
                           EXCEPT !.saved = doc'.saved]
       /\ (Ran("redo"))' =>
             /\ undone # <<>>
             /\ last'.calls = <<[m |-> "do", id |-> undone[Len(undone)]]>>
             /\ undoSnap # <<>>
             /\ <<history', last_action_idx'>> = undoSnap[Len(undoSnap)]]_vars

\* the second of two redos after two undos
C3_Witness ==
    /\ Ran("redo")
    /\ undoSnap = <<>>
    /\ Len(applied) >= 2

\* C4: can_undo() is True exactly when an action is applied, can_redo() exactly
\* when an action is undone; undo() without can_undo() and redo() without
\* can_redo() raise, call no action and change nothing.
C4_CanUndoRedo ==
    [][/\ CanUndo' <=> (applied' # <<>>)
       /\ CanRedo' <=> (undone' # <<>>)
       /\ (last'.op = "undo" /\ ~CanUndo) \/ (last'.op = "redo" /\ ~CanRedo) =>
             /\ last'.raised
             /\ last'.calls = <<>>
             /\ last'.notified = <<>>
             /\ UNCHANGED <<history, last_action_idx, saved_idx, doc>>]_vars

\* undo() raised although the list of actions is not empty
C4_Witness ==
    /\ last.op = "undo"
    /\ last.raised
    /\ Len(history) >= 2
    /\ ~CanUndo

\* C5: doc.saved equals is_saved() whenever an operation has returned.
C5_DocSavedIsSaved ==
    doc.saved = IsSaved

\* an undo that came back to the saved state
C5_Witness ==
    /\ Ran("undo")
    /\ doc.saved
    /\ saved_idx >= 0
    /\ CanRedo

\* C6: do, undo, redo and register_save call every subscribed callback once,
\* in subscription order and with doc.saved already updated, if is_saved()
\* changed, and call no callback otherwise.
C6_SavedChangeNotified ==
    [][(last'.op \in {"do", "undo", "redo", "register_save"} /\ ~last'.raised) =>
          last'.notified =
              IF IsSaved' # IsSaved
              THEN [k \in 1 .. Len(subs) |-> [cb |-> subs[k], saved |-> IsSaved']]
              ELSE <<>>]_vars

\* two subscribers were told that the document is saved again
C6_Witness ==
    /\ Ran("redo")
    /\ Len(last.notified) = 2
    /\ last.notified[1].cb = subs[1]
    /\ last.notified[2].saved

\* C7: after register_save() is_saved() is True; the list of actions, the
\* position, can_undo(), can_redo() and the document's data are unchanged.
C7_RegisterSave ==
    [][(Ran("register_save"))' =>
          /\ IsSaved'
          /\ history' = history
          /\ last_action_idx' = last_action_idx
          /\ CanUndo' = CanUndo
          /\ CanRedo' = CanRedo
          /\ DocData(doc') = DocData(doc)]_vars

\* a save in the middle of the history
C7_Witness ==
    /\ Ran("register_save")
    /\ CanUndo
    /\ CanRedo

----------------------------------------------------------------------------
(* Claims about FileFrame *)

\* C8: a close event that can be vetoed, with unsaved changes, closes the
\* window only if the answer is No, or Yes and OnSave returned ID_OK (and then
\* is_saved() is True); with Cancel, or Yes and a cancelled save, the event is
\* vetoed, the window stays open and document and history are unchanged.
C8_CloseAsksToSave ==
    [][(last'.op = "close" /\ last'.ev.canVeto /\ ~IsSaved) =>
          /\ window' = "closed" =>
                \/ last'.ev.cmd = "NO"
                \/ /\ last'.ev.cmd = "YES"
                   /\ last'.ret = "ID_OK"
                   /\ ~last'.raised
                   /\ IsSaved'
          /\ (last'.ev.cmd = "CANCEL"
                 \/ (last'.ev.cmd = "YES" /\ last'.ret = "ID_CANCEL")) =>
                /\ last'.vetoed
                /\ window' = "open"
                /\ UNCHANGED <<history, last_action_idx, saved_idx, doc>>]_vars

\* the user answered Yes and then cancelled the file dialog
C8_Witness ==
    /\ last.op = "close"
    /\ last.ev.canVeto
    /\ last.ev.cmd = "YES"
    /\ last.ret = "ID_CANCEL"
    /\ last.vetoed
    /\ ~IsSaved

----------------------------------------------------------------------------
(* Claims about ChangeAction and Model *)

\* the action called by the last operation, and the document before and
\* after it was first done
LastAction == CHOOSE a \in SeqRange(history) : a.id = last.calls[1].id
LastSnap == CHOOSE e \in SeqRange(snaps) : e.id = last.calls[1].id

\* C9: for an action made by set_case, clear, update_rejection,
\* set_interpolation, toggle_interpolation or set_bad_channels, undo() in the
\* state the action left restores accept, tag, interpolate and bad channels
\* to what they were before the action, and redo() in that state restores
\* what the action left.
C9_ActionsUndoThemselves ==
    [][/\ ((Ran("undo"))' /\ LastAction'.desc # "Load File"
              /\ DocData(doc) = LastSnap'.after) =>
             DocData(doc') = LastSnap'.before
       /\ ((Ran("redo"))' /\ LastAction'.desc # "Load File"
              /\ DocData(doc) = LastSnap'.before) =>
             DocData(doc') = LastSnap'.after]_vars

\* an action that changed the document was done, undone and redone
C9_Witness ==
    /\ Ran("redo")
    /\ LastAction.desc # "Load File"
    /\ LastSnap.before # LastSnap.after
    /\ DocData(doc) = LastSnap.after

\* C10: after Model.load(path) followed by history.undo(), accept, tag,
\* interpolate, bad channels and doc.path equal their values from before the
\* load.
C10_LoadUndoesItself ==
    [][(last.op = "load" /\ ~last.raised /\ (Ran("undo"))') =>
          DocData(doc') = LastSnap'.before]_vars

\* the handler that ran last, and its arguments
Handled(name) == last.ev.arg[1] = name /\ ~last.raised
Arg(k) == last.ev.arg[k + 1]

\* C11: after Model.load(path) returned, accept, tag, interpolate and bad
\* channels of the document are the values read from the file (without the
\* interpolation instructions the user agreed to drop), doc.path is the
\* loaded path, the history is the previously applied actions followed by
\* exactly one new action, nothing can be redone, and is_saved() is True.
C11_LoadSetsDocument ==
    [][(Handled("load"))' =>
          LET path == Arg(1)'
              file == Arg(2)'
          IN /\ doc'.accept = file.accept
             /\ doc'.tag = file.tag
             /\ doc'.interpolate = IF Arg(3)' = "OK"
                                   THEN [c \in Epochs |-> <<>>]
                                   ELSE file.interpolate
             /\ SeqRange(doc'.bad_channels) =
                    {PyInt(i) : i \in {j \in Sensors : SensorName(j) \in SeqRange(file.bad_channels)}}
             /\ doc'.path = path
             /\ Ids(history') = Append(applied, nextId)
             /\ SubSeq(history', 1, Len(applied)) = SubSeq(history, 1, Len(applied))
             /\ ~CanRedo'
             /\ IsSaved']_vars

\* a load with unsaved changes and an undone action, which it discarded
C11_Witness ==
    /\ Handled("load")
    /\ discarded # {}
    /\ doc.bad_channels # <<>>
    /\ IsSaved

\* C16: update_rejection with only mark_bad rejects exactly the accepted
\* epochs whose new_accept is False and accepts none; with only mark_good it
\* accepts exactly the rejected epochs whose new_accept is True and rejects
\* none; with both, doc.accept is new_accept afterwards; every changed epoch
\* gets the new tag, every other epoch keeps its accept value and its tag.
C16_UpdateRejection ==
    [][(Handled("update_rejection"))' =>
          LET new_accept == Arg(1)'
              mark_good == Arg(2)'
              mark_bad == Arg(3)'
              rejected == {c \in Epochs : doc.accept[c] /\ ~doc'.accept[c]}
              accepted == {c \in Epochs : ~doc.accept[c] /\ doc'.accept[c]}
          IN /\ (mark_bad /\ ~mark_good) =>
                   /\ rejected = {c \in Epochs : doc.accept[c] /\ ~new_accept[c]}
                   /\ accepted = {}
             /\ (mark_good /\ ~mark_bad) =>
                   /\ accepted = {c \in Epochs : ~doc.accept[c] /\ new_accept[c]}
                   /\ rejected = {}
             /\ (mark_good /\ mark_bad) => doc'.accept = new_accept
             /\ \A c \in Epochs :
                   doc'.tag[c] = IF c \in rejected \cup accepted
                                 THEN Arg(4)' ELSE doc.tag[c]
             /\ doc'.interpolate = doc.interpolate
             /\ doc'.bad_channels = doc.bad_channels]_vars

\* only mark_good: a rejected epoch was accepted while an accepted epoch
\* that is below the threshold no more stayed accepted
C16_Witness ==
    /\ Handled("update_rejection")
    /\ Arg(2) /\ ~Arg(3)
    /\ \E c, e \in Epochs :
          /\ doc.tag[c] = Arg(4) /\ doc.accept[c]
          /\ ~Arg(1)[e] /\ doc.accept[e] /\ doc.tag[e] # Arg(4)

----------------------------------------------------------------------------
(* Claims about the Frame *)

\* the epochs shown and their plots
Shown == DOMAIN doc.frame.plots
Plot(e) == doc.frame.plots[e]

C14_NoInterpolation ==
    \A c \in Epochs : doc.interpolate[c] = <<>>

\* C15: every element of doc.bad_channels is an int, the index of a sensor.
C15_BadChannelsAreIndexes ==
    \A k \in 1 .. Len(doc.bad_channels) :
       /\ IsInt(doc.bad_channels[k])
       /\ doc.bad_channels[k][2] \in Sensors

\* C17: after every operation the title is 'Unsaved' when doc.path is
\* empty, and otherwise the basename of doc.path, with '* ' in front exactly
\* when is_saved() is False.
C17_TitleFollowsPathAndSaved ==
    doc.frame.title =
        IF doc.path.none \/ (doc.path.root = "" /\ doc.path.ext = "")
        THEN <<"Unsaved">>
        ELSE IF IsSaved
        THEN <<doc.path.root, doc.path.ext>>
        ELSE <<"* ", doc.path.root, doc.path.ext>>

\* an undo came back to the saved state of a document with a path that was
\* given by Save As
C17_Witness ==
    /\ Ran("undo")
    /\ IsSaved
    /\ CanRedo
    /\ doc.frame.title = <<"b", ".txt">>


----------------------------------------------------------------------------
(* Claims about the test definitions *)

\* the value given under the i-th key of test_dict
Given(i) == tests.test_dict[i][2]
Items == 1 .. Len(tests.test_dict)

\* what assemble_tests returned under the i-th key
Assembled(i) == tests.value[2][TestKey(i)]

\* a definition of kind 'two-stage' that gives the first stage under 'stage 1'
IsStage1Definition(v) ==
    /\ v[1] = "dict"
    /\ {"kind", "stage 1"} \subseteq DOMAIN v[2]
    /\ DOMAIN v[2] \subseteq {"kind", "stage 1", "vars", "model"}
    /\ v[2].kind = Kind("two-stage")

\* C18: a definition of kind 'two-stage' that gives the first stage under
\* the key 'stage 1' is accepted, and the result has under the same key a
\* TwoStageTest whose stage_1 is that value and whose vars is the given vars
C18_Stage1Key ==
    tests.called =>
       /\ (\A i \in Items : IsStage1Definition(Given(i))) => tests.raised = "None"
       /\ tests.raised = "None" =>
             \A i \in Items :
                IsStage1Definition(Given(i)) =>
                   /\ Assembled(i)[1] = "TwoStageTest"
                   /\ Assembled(i)[2].stage_1 = Given(i)[2]["stage 1"]
                   /\ Assembled(i)[2].vars =
                         (IF "vars" \in DOMAIN Given(i)[2] THEN Given(i)[2].vars ELSE PyNone)

C18_Witness ==
    /\ tests.called
    /\ tests.raised = "None"
    /\ Len(tests.test_dict) = 2
    /\ \A i \in Items : IsStage1Definition(Given(i))
    /\ Assembled(1)[2].vars = Stage1Vars
    /\ Assembled(1) # Assembled(2)

\* the model of a definition: 'group' for ttest_ind, within subjects otherwise
ModelFits(cls, p) ==
    LET model == IF "model" \in DOMAIN p THEN p.model
                 ELSE IF cls = "ANOVA" THEN PyStr(no_whitespace(p.x[2]))
                 ELSE PyNone
    IN IF cls = "TTestInd" THEN model = PyStr(<<"group">>)
       ELSE model = PyNone \/ "group" \notin SeqRange(model[2])

\* a definition whose kind is in TEST_CLASSES and whose remaining parameters
\* are the ones the constructor of that class takes
IsClassDefinition(v) ==
    /\ v[1] = "dict"
    /\ "kind" \in DOMAIN v[2]
    /\ IsKind(v[2].kind)
    /\ LET cls == TEST_CLASSES[v[2].kind[2][1]]
           p == pop(rename_stage_1(v[2]), "kind")
       IN /\ Bind(Parameters(cls), Defaults(cls), p).raised = "None"
          /\ ModelFits(cls, p)

\* C19: when every value of test_dict is a Test or a definition of a kind in
\* TEST_CLASSES with the parameters of its class, assemble_tests returns,
\* under each key, the Test itself or an instance of the class of the kind
C19_EveryKindAssembles ==
    (tests.called /\ \A i \in Items : IsTest(Given(i)) \/ IsClassDefinition(Given(i))) =>
       /\ tests.raised = "None"
       /\ \A i \in Items :
             IF IsTest(Given(i)) THEN Assembled(i) = Given(i)
             ELSE Assembled(i)[1] = TEST_CLASSES[Given(i)[2].kind[2][1]]

\* how assemble_tests rejects a value: TypeError for what is neither a Test
\* nor a dict, DefinitionError for a dict with a kind outside TEST_CLASSES
Rejected(v) ==
    IF ~IsTest(v) /\ v[1] # "dict" THEN "TypeError"
    ELSE IF v[1] = "dict" /\ "kind" \in DOMAIN v[2] /\ ~IsKind(v[2].kind) THEN "DefinitionError"
    ELSE "None"

\* C20: with a value that is neither a Test nor a dict, or a dict of unknown
\* kind, assemble_tests raises and returns no dict; the exception is
\* TypeError or DefinitionError, respectively, when the items iterated
\* before that value are accepted
C20_InvalidRejected ==
    tests.called =>
       \A i \in Items :
          Rejected(Given(i)) # "None" =>
             /\ tests.raised # "None"
             /\ tests.value = PyNone
             /\ (\A j \in 1 .. (i - 1) :
                    assemble_tests(<<tests.test_dict[j]>>).raised = "None")
                   => tests.raised = Rejected(Given(i))

C20_Witness ==
    /\ tests.called
    /\ Len(tests.test_dict) = 2
    /\ IsClassDefinition(Given(1))
    /\ Rejected(Given(2)) = "DefinitionError"
    /\ tests.raised = "DefinitionError"
    /\ tests.value = PyNone

\* the test that assemble_tests made from t.as_dict(), for the test t of
\* the round trip
Original == tests.value[2][TestKey(tests.round.key)]
Reassembled == tests.round.value[2][TestKey(tests.round.key)]

\* C22: for a test t that assemble_tests made from a definition dict,
\* assemble_tests({key: t.as_dict()}) returns under key a test of the class
\* of t whose as_dict() equals t.as_dict()
C22_AsDictRoundTrip ==
    tests.round # NoRound =>
       /\ tests.round.raised = "None"
       /\ Reassembled[1] = Original[1]
       /\ as_dict(Reassembled) = as_dict(Original)
       /\ as_dict(Original) = Return(tests.round.dict)

\* an ANOVA whose model was made from x, next to another test
C22_Witness ==
    /\ tests.round # NoRound
    /\ tests.round.raised = "None"
    /\ Len(tests.test_dict) = 2
    /\ Original[1] = "ANOVA"
    /\ "model" \notin DOMAIN Given(tests.round.key)[2]
    /\ Reassembled[2].model = PyStr(<<"a", "%", "b">>)

----------------------------------------------------------------------------
(* Claims about the Set Plot Layout dialog *)

\* the entry has no number, an option other than nomean and notopo after
\* its last number, or a layout specification that is not one or two numbers
NoNumber(value) == \A k \in 1 .. Len(value) : value[k] \notin SeqRange(Digits)
UnknownOption(value) ==
    /\ ~NoNumber(value)
    /\ \E x \in SeqRange(pop_options(split(value, " "), <<>>).options) :
          x \notin {<<"nomean">>, <<"notopo">>}
BadSpecification(value) ==
    /\ ~NoNumber(value)
    /\ layout_info(pop_options(split(value, " "), <<>>).items) = PyNone
InvalidEntry(value) == NoNumber(value) \/ UnknownOption(value) \/ BadSpecification(value)

\* C21: when an invalid entry is confirmed in the Set Plot Layout dialog,
\* the handler raises nothing, shows the message box and prompts again, and
\* the layout and the page stay as they were
C21_InvalidEntryPromptsAgain ==
    [][(layout.dlg /\ layout'.last.op = "entry" /\ InvalidEntry(layout'.last.value)) =>
          /\ layout'.last.raised = "None"
          /\ layout'.last.box
          /\ layout'.dlg
          /\ layout'.frame = layout.frame
          /\ layout'.page = layout.page]_vars

====
